---- MODULE Spec2Model ----
(***************************************************************************)
(* Model of the document-store adapter of server/mongo/src/storage.ts:     *)
(* the transaction bulk translator (MongoAdapter.tx and the tx* methods),  *)
(* the bulk flush (pushBulk / _pushBulk), the database that executes the   *)
(* dispatched batched writes, and the change-hash iterator (find).         *)
(*                                                                         *)
(* Documents, patches, filters and update payloads are functions from      *)
(* string keys to values, as the JavaScript objects they model.  A nested  *)
(* mixin attribute is stored under its dotted path ("M.a").                *)
(***************************************************************************)
EXTENDS Integers, Sequences, FiniteSets, TLC

VARIABLES
    db,        \* the collection of the domain: existing id -> stored document
    db0,       \* the collection as it was when tx() was called
    txes,      \* the argument of tx(): the ordered batch of transactions
    pc,        \* position of the tx() call
    idx,       \* index of the next transaction handed to updateBulk
    bulk,      \* domainBulk: the OperationBulk of the call
    bulkOps,   \* this.bulkOps: pending native operations per domain
    writes,    \* the batched writes dispatched so far, in dispatch order
    applied,   \* per dispatched write: the entries the database has executed
    result,    \* result: TxResult[] of the call
    rawIdx,    \* index of the next raw deferred call
    moveIn,    \* input of the array-move check: the array, the value, the position
    iter,      \* the change-hash iterator: mode, cursor, bulkUpdate buffer
    read,      \* a findAll or load call: its path, its lookup depth and what it returned
    lim,       \* the write limiter and the concurrent callers of the bulk flush
    patch,     \* an update() call: pending operations, batch size, outcome
    qry        \* a query being compiled: its inputs and what the compilation gave

vars == <<db, db0, txes, pc, idx, bulk, bulkOps, writes, applied, result, rawIdx, moveIn, iter, read, lim, patch, qry>>

\* the state of the calls that tx() and the change-hash iterator do not touch
otherVars == <<read, lim, patch, qry>>

(***************************************************************************)
(* Bounds of the model.                                                    *)
(***************************************************************************)
MaxBatch == 2      \* transactions in one tx() call
MaxLen == 3        \* length of the array of the array-move check
MaxVal == 3        \* array elements are 1..MaxVal
MaxContent == 2    \* content versions a document goes through in the iterator check
MaxDepth == 2      \* nesting levels of the lookup of a findAll call
MaxCallers == 6    \* concurrent callers of tx()
BatchSize == 2     \* first batch size of update(): 500 in the source, scaled to the model
MaxOps == 4        \* entries of the operations map given to update()
MaxAttempts == 3   \* writes of one entry after which the model stops update()
MaxIterations == 2 \* find() calls on the domain, one after the other
MaxUndefined == 2  \* calls of next() on an exhausted iterator

(***************************************************************************)
(* Values.                                                                 *)
(***************************************************************************)
\* a string value is the sequence of its characters, so that indexOf, slice and
\* parseInt can be computed on it; null is a value that is no string of the program
NULL == <<"null">>
EmptyString == <<>>
HASH == "%hash%"
Empty == [k \in {} |-> 0]
Domain == "dom"
Mixin == "M"
User == "user"

Merge(f, g) ==
    [k \in (DOMAIN f) \cup (DOMAIN g) |-> IF k \in DOMAIN g THEN g[k] ELSE f[k]]

Without(f, k) == [j \in (DOMAIN f) \ {k} |-> f[j]]

FirstKey(o) == CHOOSE k \in DOMAIN o : TRUE

\* the keys k with k.startsWith('$')
DollarKeys == {"$move", "$update", "$push", "$pull", "$set", "$each", "$position", "$value"}

startsWithDollar(k) == k \in DollarKeys

isOperator(o) == (DOMAIN o # {}) /\ (\A k \in DOMAIN o : startsWithDollar(k))

\* the digest the change-hash iterator stores: `${digest}|${size.toString(16)}`
HexDigits == <<"0", "1", "2", "3", "4", "5", "6", "7", "8", "9", "a", "b", "c", "d", "e", "f">>

\* size.toString(16): the hexadecimal digits of n
RECURSIVE toHex(_)
toHex(n) == IF n < 16 THEN <<HexDigits[n + 1]>> ELSE toHex(n \div 16) \o <<HexDigits[(n % 16) + 1]>>

\* the estimated size of a document: a number that grows with its content
estimateDocSize(d) == 11 * Cardinality(DOMAIN d)

\* the content of a document in one canonical form
Canonical(d) ==
    [k \in DOMAIN d |->
        IF k = "subs"
        THEN [n \in 1..Len(d[k]) |-> [j \in DOMAIN d[k][n] |-> d[k][n][j]]]
        ELSE d[k]]

\* the content hash: a value that identical contents share and different ones do not
\* (a base64 string, which holds no "|": here one symbol that stands for it)
calculateHash(d) == <<ToString(Canonical(d))>>

digestString(d) == calculateHash(d) \o <<"|">> \o toHex(estimateDocSize(d))

Remove(s, v) == SelectSeq(s, LAMBDA x : x # v)

Count(s, v) == Cardinality({n \in 1..Len(s) : s[n] = v})


(***************************************************************************)
(* The document database: how it matches a filter and executes one entry   *)
(* of a batched write.                                                     *)
(***************************************************************************)
ArrayFields == {"subs"}
SubKeys == {"k", "w"}

QueryPath(arr, k) == arr \o "." \o k

PositionalPath(arr, k) == arr \o ".$." \o k

ArrayConds(filter, arr) == {k \in SubKeys : QueryPath(arr, k) \in DOMAIN filter}

ElemMatches(d, filter, arr, n) ==
    \A k \in ArrayConds(filter, arr) :
        k \in DOMAIN d[arr][n] /\ d[arr][n][k] = filter[QueryPath(arr, k)]

\* index of the first element of d[arr] matching the array conditions; 0: none
MatchIndex(d, filter, arr) ==
    IF arr \in DOMAIN d /\ \E n \in 1..Len(d[arr]) : ElemMatches(d, filter, arr, n)
    THEN CHOOSE n \in 1..Len(d[arr]) :
            /\ ElemMatches(d, filter, arr, n)
            /\ \A m \in 1..(n - 1) : ~ElemMatches(d, filter, arr, m)
    ELSE 0

Matches(d, filter) ==
    /\ d["_id"] = filter["_id"]
    /\ \A arr \in ArrayFields :
          ArrayConds(filter, arr) # {} => MatchIndex(d, filter, arr) > 0

PositionalKeys(payload, arr) == {k \in SubKeys : PositionalPath(arr, k) \in DOMAIN payload}

IsPositional(key) == \E arr \in ArrayFields, k \in SubKeys : key = PositionalPath(arr, k)

ApplySet(d, filter, payload) ==
    LET plain == [k \in {j \in DOMAIN payload : ~IsPositional(j)} |-> payload[k]]
        d1 == Merge(d, plain)
    IN  [k \in DOMAIN d1 |->
            IF k \in ArrayFields /\ PositionalKeys(payload, k) # {} /\ MatchIndex(d, filter, k) > 0
            THEN [d1[k] EXCEPT ![MatchIndex(d, filter, k)] =
                    Merge(@, [j \in PositionalKeys(payload, k) |-> payload[PositionalPath(k, j)]])]
            ELSE d1[k]]

ApplyPull(d, payload) ==
    [k \in DOMAIN d |-> IF k \in DOMAIN payload THEN Remove(d[k], payload[k]) ELSE d[k]]

InsertAt(s, p, xs) ==
    IF p >= Len(s) THEN s \o xs
    ELSE SubSeq(s, 1, p) \o xs \o SubSeq(s, p + 1, Len(s))

PushOne(s, desc) ==
    IF "$position" \in DOMAIN desc
    THEN InsertAt(s, desc["$position"], desc["$each"])
    ELSE s \o desc["$each"]

ApplyPush(d, payload) ==
    Merge(d, [k \in DOMAIN payload |->
                PushOne(IF k \in DOMAIN d THEN d[k] ELSE <<>>, payload[k])])

ApplyUpdate(d, filter, update) ==
    LET d1 == IF "$set" \in DOMAIN update THEN ApplySet(d, filter, update["$set"]) ELSE d
        d2 == IF "$pull" \in DOMAIN update THEN ApplyPull(d1, update["$pull"]) ELSE d1
    IN  IF "$push" \in DOMAIN update THEN ApplyPush(d2, update["$push"]) ELSE d2

OpId(op) ==
    IF "insertOne" \in DOMAIN op THEN op.insertOne.document["_id"]
    ELSE IF "updateOne" \in DOMAIN op THEN op.updateOne.filter["_id"]
    ELSE op.deleteOne.filter["_id"]

\* one entry of a batched write, executed on the collection c
ExecOp(c, op) ==
    LET id == OpId(op) IN
    IF "insertOne" \in DOMAIN op
    THEN IF id \in DOMAIN c THEN c ELSE (id :> op.insertOne.document) @@ c
    ELSE IF "updateOne" \in DOMAIN op
    THEN IF id \in DOMAIN c /\ Matches(c[id], op.updateOne.filter)
         THEN [c EXCEPT ![id] = ApplyUpdate(@, op.updateOne.filter, op.updateOne.update)]
         ELSE c
    ELSE [j \in (DOMAIN c) \ {id} |-> c[j]]

RECURSIVE ExecAll(_, _)
ExecAll(c, ops) == IF ops = <<>> THEN c ELSE ExecAll(ExecOp(c, Head(ops)), Tail(ops))

(***************************************************************************)
(* The transaction bulk translator.  An OperationBulk is a record; its     *)
(* update map is the sequence of its [id, patch] entries in insertion      *)
(* order, which is the order Map.entries() yields them in.                 *)
(***************************************************************************)
EmptyBulk ==
    [bulks |-> 1, add |-> <<>>, update |-> <<>>, bulkOperations |-> <<>>,
     findUpdate |-> {}, raw |-> <<>>]

MapHas(m, id) == \E n \in 1..Len(m) : m[n].id = id

MapIndex(m, id) == CHOOSE n \in 1..Len(m) : m[n].id = id

MapGet(m, id) == m[MapIndex(m, id)].patch

\* mutant: every flat patch opens a new entry, the map does not coalesce by id
MapAssign_NoCoalesce(m, id, entries) == Append(m, [id |-> id, patch |-> Merge(Empty, entries)])

\* mutant: a later flat patch replaces the whole entry of its id
MapAssign_Replace(m, id, entries) ==
    IF MapHas(m, id)
    THEN [m EXCEPT ![MapIndex(m, id)].patch = entries]
    ELSE Append(m, [id |-> id, patch |-> entries])

\* upd = bulk.update.get(id) ?? {} ; then every [k, v] of entries is assigned to upd
MapAssign(m, id, entries) ==
    IF MapHas(m, id)
    THEN [m EXCEPT ![MapIndex(m, id)].patch = Merge(@, entries)]
    ELSE Append(m, [id |-> id, patch |-> Merge(Empty, entries)])

\* mutant: the created document keeps whatever digest its attributes carry
translateDoc_KeepDigest(doc) == doc

translateDoc(doc) == Merge(doc, HASH :> NULL)

createDoc2Doc(tx) ==
    Merge(tx.attributes,
          "_id" :> tx.objectId @@ "modifiedBy" :> tx.modifiedBy @@ "modifiedOn" :> tx.modifiedOn)

txCreateDoc(b, tx) == [b EXCEPT !.add = Append(@, translateDoc(createDoc2Doc(tx)))]

txRemoveDoc(b, tx) ==
    [b EXCEPT !.bulkOperations =
        Append(@, [deleteOne |-> [filter |-> ("_id" :> tx.objectId)]])]

modifyOp(tx) == "modifiedBy" :> tx.modifiedBy @@ "modifiedOn" :> tx.modifiedOn

provenanceReset(tx) == modifyOp(tx) @@ HASH :> NULL

UpdateOne(filter, update) == [updateOne |-> [filter |-> filter, update |-> update]]

\* mutant: the array move emits the push before the pull
moveOps_PushFirst(tx) ==
    LET keyval == tx.operations["$move"]
        arr == FirstKey(keyval)
        desc == keyval[arr]
    IN  << UpdateOne("_id" :> tx.objectId,
                     "$set" :> (modifyOp(tx) @@ HASH :> NULL)
                     @@ "$push" :> (arr :> ("$each" :> <<desc["$value"]>>
                                            @@ "$position" :> desc["$position"]))),
           UpdateOne("_id" :> tx.objectId,
                     "$set" :> (HASH :> NULL) @@ "$pull" :> (arr :> desc["$value"])) >>

\* the two entries of an update $move
moveOps(tx) ==
    LET keyval == tx.operations["$move"]
        arr == FirstKey(keyval)
        desc == keyval[arr]
    IN  << UpdateOne("_id" :> tx.objectId,
                     "$set" :> (HASH :> NULL) @@ "$pull" :> (arr :> desc["$value"])),
           UpdateOne("_id" :> tx.objectId,
                     "$set" :> provenanceReset(tx)
                     @@ "$push" :> (arr :> ("$each" :> <<desc["$value"]>>
                                            @@ "$position" :> desc["$position"]))) >>

\* the two entries of an update $update
updateOps(tx) ==
    LET keyval == tx.operations["$update"]
        arr == FirstKey(keyval)
        desc == keyval[arr]
        q == desc["$query"]
        u == desc["$update"]
    IN  << UpdateOne(("_id" :> tx.objectId) @@ [p \in {QueryPath(arr, k) : k \in DOMAIN q} |->
                        q[CHOOSE k \in DOMAIN q : QueryPath(arr, k) = p]],
                     "$set" :> ((HASH :> NULL) @@ [p \in {PositionalPath(arr, k) : k \in DOMAIN u} |->
                        u[CHOOSE k \in DOMAIN u : PositionalPath(arr, k) = p]])),
           UpdateOne("_id" :> tx.objectId, "$set" :> provenanceReset(tx)) >>

\* { ...tx.operations, $set: { modifiedBy, modifiedOn, '%hash%': null } }
nativeUpdate(tx) == Merge(tx.operations, "$set" :> provenanceReset(tx))

txUpdateDoc(b, tx) ==
    IF isOperator(tx.operations)
    THEN LET operator == FirstKey(tx.operations) IN
         IF operator = "$move"
         THEN [b EXCEPT !.bulkOperations = @ \o moveOps(tx)]
         ELSE IF operator = "$update"
         THEN [b EXCEPT !.bulkOperations = @ \o updateOps(tx)]
         ELSE IF tx.retrieve
         THEN [b EXCEPT !.raw =
                 Append(@, [filter |-> ("_id" :> tx.objectId), update |-> nativeUpdate(tx)])]
         ELSE [b EXCEPT !.bulkOperations =
                 Append(@, UpdateOne("_id" :> tx.objectId, nativeUpdate(tx)))]
    ELSE [b EXCEPT
            !.update = MapAssign(@, tx.objectId, Merge(tx.operations, provenanceReset(tx))),
            !.findUpdate = IF tx.retrieve THEN @ \cup {tx.objectId} ELSE @]

RECURSIVE translateMixinAttrs(_, _)
\* a translation that writes nothing for an empty patch
translateMixinAttrs_NoSentinel(mixin, attributes) ==
    LET keyOf(k) == IF startsWithDollar(k) THEN k ELSE mixin \o "." \o k
    IN  [t \in {keyOf(k) : k \in DOMAIN attributes} |->
            LET k == CHOOSE j \in DOMAIN attributes : keyOf(j) = t IN
            IF startsWithDollar(k)
            THEN translateMixinAttrs(mixin, attributes[k])
            ELSE attributes[k]]

translateMixinAttrs(mixin, attributes) ==
    LET keyOf(k) == IF startsWithDollar(k) THEN k ELSE mixin \o "." \o k
        attrs == [t \in {keyOf(k) : k \in DOMAIN attributes} |->
                    LET k == CHOOSE j \in DOMAIN attributes : keyOf(j) = t IN
                    IF startsWithDollar(k)
                    THEN translateMixinAttrs(mixin, attributes[k])
                    ELSE attributes[k]]
    IN  IF DOMAIN attributes = {}
        THEN (mixin \o "." \o "__mixin") :> "true"
        ELSE attrs

\* txMixin on $move reads keyval[arr] with arr already prefixed by the mixin:
\* when that key is absent desc is undefined and desc.$value throws
txMixinThrows(tx) ==
    /\ isOperator(tx.attributes)
    /\ FirstKey(tx.attributes) = "$move"
    /\ (tx.mixin \o "." \o FirstKey(tx.attributes["$move"])) \notin DOMAIN tx.attributes["$move"]

mixinMoveOps(tx) ==
    LET keyval == tx.attributes["$move"]
        arr == tx.mixin \o "." \o FirstKey(keyval)
        desc == keyval[arr]
    IN  << UpdateOne("_id" :> tx.objectId, "$pull" :> (arr :> desc["$value"])),
           UpdateOne("_id" :> tx.objectId,
                     "$set" :> modifyOp(tx)
                     @@ "$push" :> (arr :> ("$each" :> <<desc["$value"]>>
                                            @@ "$position" :> desc["$position"]))) >>

txMixin(b, tx) ==
    IF isOperator(tx.attributes)
    THEN IF FirstKey(tx.attributes) = "$move"
         THEN [b EXCEPT !.bulkOperations = @ \o mixinMoveOps(tx)]
         ELSE [b EXCEPT !.bulkOperations =
                 Append(@, UpdateOne("_id" :> tx.objectId,
                                     Merge(translateMixinAttrs(tx.mixin, tx.attributes),
                                           "$set" :> modifyOp(tx))))]
    ELSE [b EXCEPT !.update =
            MapAssign(@, tx.objectId,
                      Merge(translateMixinAttrs(tx.mixin, tx.attributes), modifyOp(tx)))]

\* a rewrite in which the attributes of the wrapped create win over the parent fields
attachedCreate_WrappedWins(tx) ==
    [tx.tx EXCEPT !.attributes =
        Merge("attachedTo" :> tx.objectId @@ "attachedToClass" :> tx.objectClass
              @@ "collection" :> tx.collection, @)]

\* the create transaction a collection-attach create is rewritten into
attachedCreate(tx) ==
    [tx.tx EXCEPT !.attributes =
        Merge(@, "attachedTo" :> tx.objectId @@ "attachedToClass" :> tx.objectClass
                 @@ "collection" :> tx.collection)]

RECURSIVE updateBulk(_, _)
\* mutant: a transaction of unknown kind discards what the batch has translated
updateBulk_UnknownAborts(b, tx) ==
    CASE tx._class = "TxCreateDoc" -> txCreateDoc(b, tx)
      [] tx._class = "TxCollectionCUD" ->
            IF tx.tx._class = "TxCreateDoc"
            THEN txCreateDoc(b, attachedCreate(tx))
            ELSE updateBulk(b, tx.tx)
      [] tx._class = "TxUpdateDoc" -> txUpdateDoc(b, tx)
      [] tx._class = "TxRemoveDoc" -> txRemoveDoc(b, tx)
      [] tx._class = "TxMixin" -> txMixin(b, tx)
      [] OTHER -> EmptyBulk

updateBulk(b, tx) ==
    CASE tx._class = "TxCreateDoc" -> txCreateDoc(b, tx)
      [] tx._class = "TxCollectionCUD" ->
            IF tx.tx._class = "TxCreateDoc"
            THEN txCreateDoc(b, attachedCreate(tx))
            ELSE updateBulk(b, tx.tx)
      [] tx._class = "TxUpdateDoc" -> txUpdateDoc(b, tx)
      [] tx._class = "TxRemoveDoc" -> txRemoveDoc(b, tx)
      [] tx._class = "TxMixin" -> txMixin(b, tx)
      [] tx._class = "TxApplyIf" -> b
      [] OTHER -> b

RECURSIVE updateBulkThrows(_)
updateBulkThrows(tx) ==
    CASE tx._class = "TxCollectionCUD" ->
            tx.tx._class # "TxCreateDoc" /\ updateBulkThrows(tx.tx)
      [] tx._class = "TxMixin" -> txMixinThrows(tx)
      [] OTHER -> FALSE

\* the operation list tx() builds from the bulk: inserts, the update map, the bulk operations
bulkToOps(b) ==
    [n \in 1..Len(b.add) |-> [insertOne |-> [document |-> b.add[n]]]]
    \o [n \in 1..Len(b.update) |->
            UpdateOne("_id" :> b.update[n].id, "$set" :> b.update[n].patch)]
    \o b.bulkOperations

bulkIsEmpty(b) ==
    /\ Len(b.add) = 0
    /\ Len(b.update) = 0
    /\ Len(b.bulkOperations) = 0
    /\ b.findUpdate = {}
    /\ Len(b.raw) = 0

(***************************************************************************)
(* The transactions of the model.                                          *)
(***************************************************************************)
TxCreate(id, attributes) ==
    [_class |-> "TxCreateDoc", objectId |-> id, attributes |-> attributes,
     modifiedBy |-> User, modifiedOn |-> 0]

TxUpdate(id, operations, retrieve) ==
    [_class |-> "TxUpdateDoc", objectId |-> id, operations |-> operations,
     retrieve |-> retrieve, modifiedBy |-> User, modifiedOn |-> 0]

TxRemove(id) ==
    [_class |-> "TxRemoveDoc", objectId |-> id, modifiedBy |-> User, modifiedOn |-> 0]

TxMixinOf(id, attributes) ==
    [_class |-> "TxMixin", objectId |-> id, mixin |-> Mixin, attributes |-> attributes,
     modifiedBy |-> User, modifiedOn |-> 0]

TxCollection(parent, inner) ==
    [_class |-> "TxCollectionCUD", objectId |-> parent, objectClass |-> "Parent",
     collection |-> "items", tx |-> inner, modifiedBy |-> User, modifiedOn |-> 0]

MoveOf(arr, v, p) == "$move" :> (arr :> ("$value" :> v @@ "$position" :> p))

PushOf(arr, v) == "$push" :> (arr :> ("$each" :> <<v>>))

SubUpdateOf(arr, q, u) == "$update" :> (arr :> ("$query" :> ("k" :> q) @@ "$update" :> ("w" :> u)))

TxUniverse ==
    { TxCreate("d2", "a" :> 1),
      TxUpdate("d1", "a" :> 2, FALSE),
      TxUpdate("d1", "a" :> 2, TRUE),
      TxUpdate("d2", "a" :> 2, FALSE),
      TxUpdate("d1", MoveOf("arr", 1, 1), FALSE),
      TxUpdate("d1", SubUpdateOf("subs", 1, 2), FALSE),
      TxUpdate("d1", PushOf("arr", 3), FALSE),
      TxUpdate("d1", PushOf("arr", 3), TRUE),
      TxRemove("d1"),
      TxRemove("d2"),
      TxMixinOf("d1", "a" :> 1),
      TxMixinOf("d1", Empty),
      TxMixinOf("d1", MoveOf("arr", 1, 0)),
      TxMixinOf("d1", PushOf("arr", 3)),
      TxCollection("d1", TxCreate("d2", "a" :> 1)),
      TxCollection("d1", TxUpdate("d2", "a" :> 3, FALSE)),
      [_class |-> "TxApplyIf"],
      [_class |-> "TxWorkspaceEvent"] }

\* the n-th transaction of a batch carries the n-th timestamp
Stamp(tx, n) ==
    IF "modifiedOn" \notin DOMAIN tx THEN tx
    ELSE IF tx._class = "TxCollectionCUD"
    THEN [tx EXCEPT !.modifiedOn = n, !.tx.modifiedOn = n]
    ELSE [tx EXCEPT !.modifiedOn = n]

Content(id) ==
    "_id" :> id @@ "a" :> 1 @@ "arr" :> <<1, 2>> @@ "subs" :> <<("k" :> 1 @@ "w" :> 0)>>
    @@ "modifiedBy" :> User @@ "modifiedOn" :> 0

\* a stored document the change-hash iterator has hashed
Hashed(d) == d @@ HASH :> digestString(d)

InitDbs == { [id \in ids |-> Hashed(Content(id))] : ids \in {{"d1"}, {"d1", "d2"}} }

NoIter ==
    [mode |-> "none", opened |-> FALSE, recheck |-> FALSE, cursor |-> {},
     bulkUpdate |-> <<>>, closed |-> FALSE]

\* no query is compiled
NoQuery == [phase |-> "none"]

NoMove == [arr |-> <<>>, value |-> 0, position |-> 0]

NoRead == [path |-> "none", depth |-> 0, rows |-> <<>>]

NoLim == [pc |-> <<>>, processing |-> {}, issued |-> {}]

NoPatch ==
    [phase |-> "none", input |-> {}, ops |-> <<>>, skip |-> 0, attempts |-> <<>>,
     applied |-> {}, failedBatch |-> {}, alone |-> {}, failedAlone |-> {}]

(***************************************************************************)
(* MongoAdapter.tx: one call, one domain.                                  *)
(***************************************************************************)
Init ==
    /\ db0 \in InitDbs
    /\ db = db0
    /\ \E n \in 1..MaxBatch : \E s \in [1..n -> TxUniverse] :
            txes = [j \in 1..n |-> Stamp(s[j], j)]
    /\ pc = "translate"
    /\ idx = 1
    /\ bulk = EmptyBulk
    /\ bulkOps = Empty
    /\ writes = <<>>
    /\ applied = <<>>
    /\ result = <<>>
    /\ rawIdx = 1
    /\ moveIn = NoMove
    /\ iter = NoIter
    /\ read = NoRead
    /\ lim = NoLim
    /\ patch = NoPatch
    /\ qry = NoQuery

\* for (const t of txs) this.updateBulk(domainBulk, t)
Translate ==
    /\ pc = "translate"
    /\ idx <= Len(txes)
    /\ IF updateBulkThrows(txes[idx])
       THEN pc' = "rejected" /\ UNCHANGED <<bulk, idx>>
       ELSE bulk' = updateBulk(bulk, txes[idx]) /\ idx' = idx + 1 /\ pc' = pc
    /\ UNCHANGED <<db, db0, txes, bulkOps, writes, applied, result, rawIdx, moveIn, iter, otherVars>>

\* pushBulk and the synchronous part of _pushBulk: the pending operations of the
\* domain are taken, the map is cleared and one batched write is dispatched
pushBulk(pending, domain, ops) ==
    IF domain \in DOMAIN pending
    THEN [pending EXCEPT ![domain] = @ \o ops]
    ELSE (domain :> ops) @@ pending

Flush ==
    /\ pc = "translate"
    /\ idx > Len(txes)
    /\ IF bulkIsEmpty(bulk)
       THEN pc' = "done" /\ UNCHANGED <<bulkOps, writes, applied>>
       ELSE LET ops == bulkToOps(bulk)
                pending == IF Len(ops) > 0 THEN pushBulk(bulkOps, Domain, ops) ELSE bulkOps
                batches == {d \in DOMAIN pending : Len(pending[d]) > 0}
            IN  /\ bulkOps' = IF Len(ops) > 0 THEN Empty ELSE bulkOps
                /\ writes' = IF Len(ops) > 0 /\ Domain \in batches
                              THEN Append(writes, pending[Domain]) ELSE writes
                /\ applied' = IF Len(ops) > 0 /\ Domain \in batches
                               THEN Append(applied, {}) ELSE applied
                /\ pc' = "find"
    /\ UNCHANGED <<db, db0, txes, idx, bulk, result, rawIdx, moveIn, iter, otherVars>>

\* the database executes one entry of a dispatched unordered batched write
ServerApply ==
    /\ \E w \in 1..Len(writes) : \E n \in (1..Len(writes[w])) \ applied[w] :
          /\ db' = ExecOp(db, writes[w][n])
          /\ applied' = [applied EXCEPT ![w] = @ \cup {n}]
    /\ UNCHANGED <<db0, txes, pc, idx, bulk, bulkOps, writes, result, rawIdx, moveIn, iter, otherVars>>

\* coll.find({ _id: { $in: Array.from(domainBulk.findUpdate) } }).toArray()
FindResult ==
    /\ pc = "find"
    /\ LET found == bulk.findUpdate \cap DOMAIN db IN
       \E order \in [1..Cardinality(found) -> found] :
          /\ \A m, n \in DOMAIN order : m # n => order[m] # order[n]
          /\ result' = result \o [n \in DOMAIN order |-> db[order[n]]]
    /\ pc' = "raw"
    /\ UNCHANGED <<db, db0, txes, idx, bulk, bulkOps, writes, applied, rawIdx, moveIn, iter, otherVars>>

\* one raw deferred call: findOneAndUpdate(filter, update, { returnDocument: 'after' })
findOneAndUpdate(c, call) ==
    LET id == call.filter["_id"] IN
    IF id \in DOMAIN c /\ Matches(c[id], call.filter)
    THEN [c EXCEPT ![id] = ApplyUpdate(@, call.filter, call.update)]
    ELSE c

\* raw deferred calls that run last first
Raw_LastFirst ==
    /\ pc = "raw"
    /\ rawIdx <= Len(bulk.raw)
    /\ LET call == bulk.raw[Len(bulk.raw) + 1 - rawIdx]
           id == call.filter["_id"]
       IN  /\ db' = findOneAndUpdate(db, call)
           /\ result' = Append(result,
                   [object |-> IF id \in DOMAIN db' THEN <<db'[id]>> ELSE <<>>])
    /\ rawIdx' = rawIdx + 1
    /\ UNCHANGED <<db0, txes, pc, idx, bulk, bulkOps, writes, applied, moveIn, iter, otherVars>>

\* for (const r of domainBulk.raw) result.push({ object: await r() })
Raw ==
    /\ pc = "raw"
    /\ rawIdx <= Len(bulk.raw)
    /\ LET call == bulk.raw[rawIdx]
           id == call.filter["_id"]
       IN  /\ db' = findOneAndUpdate(db, call)
           /\ result' = Append(result,
                   [object |-> IF id \in DOMAIN db' THEN <<db'[id]>> ELSE <<>>])
    /\ rawIdx' = rawIdx + 1
    /\ UNCHANGED <<db0, txes, pc, idx, bulk, bulkOps, writes, applied, moveIn, iter, otherVars>>

Return ==
    /\ pc = "raw"
    /\ rawIdx > Len(bulk.raw)
    /\ pc' = "done"
    /\ UNCHANGED <<db, db0, txes, idx, bulk, bulkOps, writes, applied, result, rawIdx, moveIn, iter, otherVars>>

Next == Translate \/ Flush \/ ServerApply \/ FindResult \/ Raw \/ Return

Spec == Init /\ [][Next]_vars

(***************************************************************************)
(* Properties of MongoAdapter.tx.                                          *)
(***************************************************************************)
Translated == pc = "translate" /\ idx > Len(txes)

Flushed == pc \in {"find", "raw", "done"}

AllApplied == \A w \in 1..Len(writes) : applied[w] = 1..Len(writes[w])

RECURSIVE ExecRaw(_, _)
ExecRaw(c, calls) ==
    IF calls = <<>> THEN c ELSE ExecRaw(findOneAndUpdate(c, Head(calls)), Tail(calls))

\* the collection after the operations of a bulk are executed in their emitted order
InEmittedOrder(c, b) == ExecRaw(ExecAll(c, bulkToOps(b)), b.raw)

\* the collection after the transactions are executed one call at a time
RECURSIVE OneAtATime(_, _)
OneAtATime(c, txs) ==
    IF txs = <<>> THEN c
    ELSE OneAtATime(InEmittedOrder(c, updateBulk(EmptyBulk, Head(txs))), Tail(txs))

IsCreate(tx) == tx._class = "TxCreateDoc"

IsFlatUpdate(tx) == tx._class = "TxUpdateDoc" /\ ~isOperator(tx.operations)

IsOperatorUpdate(tx) == tx._class = "TxUpdateDoc" /\ isOperator(tx.operations)

Inserts(ops) == {n \in 1..Len(ops) : "insertOne" \in DOMAIN ops[n]}

Updates(ops) == {n \in 1..Len(ops) : "updateOne" \in DOMAIN ops[n]}

\* C1: per-object ordering: the operations emitted for a batch, executed in their
\* emitted order, leave every document as executing the transactions one at a
\* time in the given order leaves it
C1_EmittedOrderIsTxOrder ==
    Translated => InEmittedOrder(db0, bulk) = OneAtATime(db0, txes)

\* C2: a batch of creates and flat updates of pre-existing ids is written by exactly
\* one batched write, with one insert entry per create and one update entry per
\* distinct updated id
C2_Batch ==
    \A n \in 1..Len(txes) :
        \/ IsCreate(txes[n])
        \/ IsFlatUpdate(txes[n]) /\ txes[n].objectId \in DOMAIN db0

C2_OneBatchedWrite ==
    C2_Batch =>
        /\ Len(writes) <= 1
        /\ Flushed =>
            /\ Len(writes) = 1
            /\ Cardinality(Inserts(writes[1]))
                 = Cardinality({n \in 1..Len(txes) : IsCreate(txes[n])})
            /\ Cardinality(Updates(writes[1]))
                 = Cardinality({txes[n].objectId : n \in {m \in 1..Len(txes) : IsFlatUpdate(txes[m])}})
            /\ Len(writes[1]) = Cardinality(Inserts(writes[1])) + Cardinality(Updates(writes[1]))

C2_Witness ==
    /\ pc = "done"
    /\ C2_Batch
    /\ \E m, n \in 1..Len(txes) : IsCreate(txes[m]) /\ IsFlatUpdate(txes[n])
    /\ Len(writes) = 1

\* entries n and n + 1 of ops are the pull and the push of one array move
IsMovePair(ops, n) ==
    /\ n < Len(ops)
    /\ "updateOne" \in DOMAIN ops[n]
    /\ "updateOne" \in DOMAIN ops[n + 1]
    /\ ops[n].updateOne.filter["_id"] = ops[n + 1].updateOne.filter["_id"]
    /\ "$pull" \in DOMAIN ops[n].updateOne.update
    /\ "$push" \in DOMAIN ops[n + 1].updateOne.update
    /\ DOMAIN ops[n].updateOne.update["$pull"] = DOMAIN ops[n + 1].updateOne.update["$push"]

\* C3: the database executes the pull of an array move before its push
C3_PullBeforePush ==
    \A w \in 1..Len(writes) : \A n \in 1..Len(writes[w]) :
        (IsMovePair(writes[w], n) /\ (n + 1) \in applied[w]) => n \in applied[w]

Provenance == {"modifiedBy", "modifiedOn", HASH}

\* C5: a document fetched for a flat update with retrieve carries the attribute
\* values the call wrote to it
C5_RetrieveSeesWrite ==
    pc \in {"raw", "done"} =>
        \A n \in 1..Len(result) : "_id" \in DOMAIN result[n] =>
            \A m \in 1..Len(bulk.update) : bulk.update[m].id = result[n]["_id"] =>
                \A k \in (DOMAIN bulk.update[m].patch) \ Provenance :
                    k \in DOMAIN result[n] /\ result[n][k] = bulk.update[m].patch[k]

\* the document a transaction writes
TargetId(tx) == IF tx._class = "TxCollectionCUD" THEN tx.tx.objectId ELSE tx.objectId

Unwrapped(tx) == IF tx._class = "TxCollectionCUD" THEN tx.tx ELSE tx

\* every native operation of a bulk sets the digest field to null
SetsDigestNull(b) ==
    /\ \A n \in 1..Len(b.add) : HASH \in DOMAIN b.add[n] /\ b.add[n][HASH] = NULL
    /\ \A n \in 1..Len(b.update) :
          HASH \in DOMAIN b.update[n].patch /\ b.update[n].patch[HASH] = NULL
    /\ \A n \in 1..Len(b.bulkOperations) :
          LET u == b.bulkOperations[n].updateOne.update IN
          "$set" \in DOMAIN u /\ HASH \in DOMAIN u["$set"] /\ u["$set"][HASH] = NULL
    /\ \A n \in 1..Len(b.raw) :
          LET u == b.raw[n].update IN
          "$set" \in DOMAIN u /\ HASH \in DOMAIN u["$set"] /\ u["$set"][HASH] = NULL

DigestIsNull(c, id) == id \in DOMAIN c => (HASH \in DOMAIN c[id] /\ c[id][HASH] = NULL)

\* C7: every create, collection-attach create and update emits only operations that
\* set the digest to null, and once the call's writes are executed the stored digest
\* of the document it wrote is null
C7_Case(tx) ==
    \/ IsCreate(Unwrapped(tx)) /\ TargetId(tx) \notin DOMAIN db0
    \/ Unwrapped(tx)._class = "TxUpdateDoc"

C7_WriteClearsDigest ==
    \A n \in 1..Len(txes) : C7_Case(txes[n]) =>
        /\ SetsDigestNull(updateBulk(EmptyBulk, txes[n]))
        /\ (idx > n /\ IsFlatUpdate(Unwrapped(txes[n]))) =>
              /\ MapHas(bulk.update, TargetId(txes[n]))
              /\ MapGet(bulk.update, TargetId(txes[n]))[HASH] = NULL
        /\ (pc = "done" /\ AllApplied) => DigestIsNull(db, TargetId(txes[n]))

C7_Witness ==
    /\ pc = "done"
    /\ AllApplied
    /\ \E m, n \in 1..Len(txes) :
          /\ IsCreate(Unwrapped(txes[m])) /\ C7_Case(txes[m])
          /\ IsOperatorUpdate(txes[n])
          /\ TargetId(txes[m]) \in DOMAIN db
          /\ TargetId(txes[n]) \in DOMAIN db
          /\ db0[TargetId(txes[n])][HASH] # NULL
          /\ db[TargetId(txes[n])][HASH] = NULL

IsMixin(tx) == Unwrapped(tx)._class = "TxMixin"

\* C8: once the writes of a call are executed, the stored digest of every document
\* a mixin-apply of the call wrote is null
C8_MixinClearsDigest ==
    (pc = "done" /\ AllApplied) =>
        \A n \in 1..Len(txes) : IsMixin(txes[n]) => DigestIsNull(db, TargetId(txes[n]))

\* C9: no id is both in the insert list and a key of the update map of a bulk
C9_InsertOrUpdate ==
    \A n \in 1..Len(bulk.add) : ~MapHas(bulk.update, bulk.add[n]["_id"])

\* the positions in ops of the updateOne entries made from the update map of b, and
\* of the explicit bulk operations of b, for the document id
MapEntryAt(b, ops, id) ==
    {n \in 1..Len(ops) : \E m \in 1..Len(b.update) :
        /\ b.update[m].id = id
        /\ ops[n] = UpdateOne("_id" :> id, "$set" :> b.update[m].patch)}

ExplicitAt(b, ops, id) ==
    {n \in 1..Len(ops) : \E m \in 1..Len(b.bulkOperations) :
        OpId(b.bulkOperations[m]) = id /\ ops[n] = b.bulkOperations[m]}

TargetIds == {TargetId(txes[n]) : n \in {m \in 1..Len(txes) : "objectId" \in DOMAIN txes[m]}}

\* the documents a flat update of the batch writes
FlatUpdateIds ==
    {id \in TargetIds : \E k \in 1..Len(txes) :
        /\ "objectId" \in DOMAIN txes[k]
        /\ IsFlatUpdate(Unwrapped(txes[k]))
        /\ TargetId(txes[k]) = id}

\* C10: in the operation list of a domain the explicit bulk operations of a
\* document with a flat update in the batch come before the updateOne entry
\* made from its update-map entry
C10_BulkOpsFirst ==
    Flushed => \A w \in 1..Len(writes) : \A id \in FlatUpdateIds :
        \A m \in MapEntryAt(bulk, writes[w], id), n \in ExplicitAt(bulk, writes[w], id) : n < m

(***************************************************************************)
(* The array move of txUpdateDoc, its two operations executed in declared  *)
(* order on a document holding the array.                                  *)
(***************************************************************************)
Seqs(S, n) == UNION {[1..k -> S] : k \in 0..n}

InitMove ==
    /\ moveIn \in [arr : Seqs(1..MaxVal, MaxLen), value : 1..MaxVal, position : 0..MaxLen]
    /\ db0 = [id \in {"d1"} |-> Hashed([Content(id) EXCEPT !["arr"] = moveIn.arr])]
    /\ db = db0
    /\ txes = <<Stamp(TxUpdate("d1", MoveOf("arr", moveIn.value, moveIn.position), FALSE), 1)>>
    /\ pc = "translate"
    /\ idx = 1
    /\ bulk = EmptyBulk
    /\ bulkOps = Empty
    /\ writes = <<>>
    /\ applied = <<>>
    /\ result = <<>>
    /\ rawIdx = 1
    /\ iter = NoIter
    /\ read = NoRead
    /\ lim = NoLim
    /\ patch = NoPatch
    /\ qry = NoQuery

\* the operation list of the bulk is handed over for execution in declared order
DispatchOrdered ==
    /\ Translated
    /\ writes' = <<bulkToOps(bulk)>>
    /\ applied' = <<{}>>
    /\ pc' = "ordered"
    /\ UNCHANGED <<db, db0, txes, idx, bulk, bulkOps, result, rawIdx, moveIn, iter, otherVars>>

ApplyNext ==
    /\ pc = "ordered"
    /\ LET n == Cardinality(applied[1]) + 1 IN
          /\ n <= Len(writes[1])
          /\ db' = ExecOp(db, writes[1][n])
          /\ applied' = [applied EXCEPT ![1] = @ \cup {n}]
    /\ UNCHANGED <<db0, txes, pc, idx, bulk, bulkOps, writes, result, rawIdx, moveIn, iter, otherVars>>

NextMove == Translate \/ DispatchOrdered \/ ApplyNext

SpecMove == InitMove /\ [][NextMove]_vars

Moved == pc = "ordered" /\ AllApplied

Min(a, b) == IF a < b THEN a ELSE b

\* C4 as claimed: after the pull and the push, executed in declared order, the moved
\* value occurs exactly once, at position p, and the other elements keep their order
C4_MovedToPosition ==
    (Moved /\ Count(moveIn.arr, moveIn.value) >= 1 /\ moveIn.position < Len(moveIn.arr)) =>
        LET F == db["d1"]["arr"] IN
        /\ Count(F, moveIn.value) = 1
        /\ moveIn.position + 1 <= Len(F)
        /\ F[moveIn.position + 1] = moveIn.value
        /\ Remove(F, moveIn.value) = Remove(moveIn.arr, moveIn.value)

\* C4 as amended: the moved value occurs exactly once, at position p or, when fewer
\* than p other elements exist, at the end; the other elements keep their order
C4_MovedOnce ==
    Moved =>
        LET F == db["d1"]["arr"]
            others == Remove(moveIn.arr, moveIn.value)
        IN  /\ Count(F, moveIn.value) = 1
            /\ Len(F) = Len(others) + 1
            /\ F[Min(moveIn.position, Len(others)) + 1] = moveIn.value
            /\ \A n \in 1..Len(others) :
                  others[n] = F[IF n <= Min(moveIn.position, Len(others)) THEN n ELSE n + 1]

C4_Witness ==
    /\ Moved
    /\ Count(moveIn.arr, moveIn.value) = 1
    /\ Len(moveIn.arr) = 3
    /\ moveIn.arr[1] = moveIn.value
    /\ moveIn.position = 1
    /\ db["d1"]["arr"][2] = moveIn.value

(***************************************************************************)
(* The change-hash iterator (find) of one domain, interleaved with         *)
(* executeTransactions calls that update documents of the domain.          *)
(***************************************************************************)
\* bulkUpdate.size > 1000: the 1000 of the source, scaled to the model
FlushLimit == 1

IsHashed(d) == HASH \in DOMAIN d /\ d[HASH] \notin {EmptyString, NULL}

\* the filters of the two cursors
HashedIds(c) == {id \in DOMAIN c : IsHashed(c[id])}

NonHashedIds(c) == {id \in DOMAIN c : ~IsHashed(c[id])}

\* bulkUpdate.set(id, digest)
BufferSet(m, id, digest) ==
    IF \E n \in 1..Len(m) : m[n].id = id
    THEN [n \in 1..Len(m) |-> IF m[n].id = id THEN [id |-> id, digest |-> digest] ELSE m[n]]
    ELSE Append(m, [id |-> id, digest |-> digest])

\* the bulkWrite of flush: one updateOne per buffered entry, setting the digest
writeBackOps(m) ==
    [n \in 1..Len(m) |-> UpdateOne("_id" :> m[n].id, "$set" :> (HASH :> m[n].digest))]

\* a flush that writes only when the buffer is over the limit
flush_IgnoreForce(c, m, force) ==
    IF Len(m) > FlushLimit
    THEN [db |-> ExecAll(c, writeBackOps(m)), bulkUpdate |-> <<>>, wrote |-> <<writeBackOps(m)>>]
    ELSE [db |-> c, bulkUpdate |-> m, wrote |-> <<>>]

\* flush(force): the collection and the buffer afterwards, and the bulk write issued
flush(c, m, force) ==
    IF Len(m) > FlushLimit \/ force
    THEN [db |-> IF Len(m) > 0 THEN ExecAll(c, writeBackOps(m)) ELSE c, bulkUpdate |-> <<>>,
          wrote |-> IF Len(m) > 0 THEN <<writeBackOps(m)>> ELSE <<>>]
    ELSE [db |-> c, bulkUpdate |-> m, wrote |-> <<>>]

\* a recheck that leaves the stored digests as they are
invalidateAll_Keep(c) == c

\* coll.updateMany({ '%hash%': { $ne: null } }, { $set: { '%hash%': null } })
invalidateAll(c) ==
    [id \in DOMAIN c |->
        IF HASH \in DOMAIN c[id] /\ c[id][HASH] # NULL THEN Merge(c[id], HASH :> NULL) ELSE c[id]]

\* the first batch of a cursor holds the documents as the query returned them
findHashed(c) == [id \in HashedIds(c) |-> [k \in {"_id", HASH} |-> c[id][k]]]

\* a second cursor that returns every document of the domain
findNonHashed_All(c) == [id \in DOMAIN c |-> c[id]]

\* coll.find({ '%hash%': { $in: ['', null] } })
findNonHashed(c) == [id \in NonHashedIds(c) |-> c[id]]

\* s.indexOf(ch): the position of the first ch, counted from 0, or -1
indexOf(s, ch) ==
    IF \E n \in 1..Len(s) : s[n] = ch
    THEN (CHOOSE n \in 1..Len(s) : s[n] = ch /\ \A j \in 1..(n - 1) : s[j] # ch) - 1
    ELSE -1

\* s.slice(from, to) and s.slice(from): a negative index counts from the end
slice(s, from, to) == SubSeq(s, from + 1, IF to < 0 THEN Len(s) + to ELSE to)

sliceFrom(s, from) == SubSeq(s, from + 1, Len(s))

DigitValue(ch) == (CHOOSE n \in 1..16 : HexDigits[n] = ch) - 1

IsDigit(ch, radix) == \E n \in 1..radix : HexDigits[n] = ch

NaN == -1

\* parseInt(s, radix): the number its leading digits denote, NaN when it has none
RECURSIVE parseDigits(_, _, _)
parseDigits(s, radix, acc) ==
    IF s = <<>> \/ ~IsDigit(Head(s), radix) THEN acc
    ELSE parseDigits(Tail(s), radix, acc * radix + DigitValue(Head(s)))

parseInt(s, radix) ==
    IF s = <<>> \/ ~IsDigit(Head(s), radix) THEN NaN ELSE parseDigits(s, radix, 0)

\* the record of a hashed document: the two parts of the stored `hash|sizeHex`
parseDigest_Radix10(digest) ==
    LET pos == indexOf(digest, "|")
    IN  [hash |-> slice(digest, 0, pos), size |-> parseInt(sliceFrom(digest, pos + 1), 10)]

parseDigest(digest) ==
    LET pos == indexOf(digest, "|")
    IN  [hash |-> slice(digest, 0, pos), size |-> parseInt(sliceFrom(digest, pos + 1), 16)]

\* next() on a document d0 the cursor returned, the buffer being m: the record it
\* yields, the buffer afterwards, and what it did to get there
nextRecord(d0, m) ==
    LET digest == IF HASH \in DOMAIN d0 THEN d0[HASH] ELSE NULL
        d == IF HASH \in DOMAIN d0 THEN Without(d0, HASH) ELSE d0
    IN  IF digest = NULL \/ digest = EmptyString
        THEN [id |-> d["_id"], hash |-> calculateHash(d), size |-> estimateDocSize(d),
              computed |-> TRUE, digest |-> digest, doc |-> d,
              bulkUpdate |-> BufferSet(m, d["_id"], digestString(d))]
        ELSE [id |-> d["_id"], hash |-> parseDigest(digest).hash,
              size |-> parseDigest(digest).size,
              computed |-> FALSE, digest |-> digest, doc |-> d, bulkUpdate |-> m]

\* the record last computed for each document of the buffer m, as yielded
Persisted(known, m, out) ==
    LET ids == {m[n].id : n \in 1..Len(m)}
        last(id) == CHOOSE n \in 1..Len(out) :
                        /\ out[n].id = id /\ out[n].computed
                        /\ \A j \in (n + 1)..Len(out) : ~(out[j].id = id /\ out[j].computed)
    IN  [id \in DOMAIN known \cup ids |->
            IF id \in ids
            THEN [hash |-> out[last(id)].hash, size |-> out[last(id)].size,
                  doc |-> out[last(id)].doc]
            ELSE known[id]]

IterDbs ==
    { [id \in {"d1", "d2"} |-> IF id \in hashed THEN Hashed(Content(id))
                                 ELSE Content(id) @@ HASH :> NULL] :
        hashed \in SUBSET {"d1", "d2"} }

\* find(): a new iterator, nothing opened yet
NewIter(r, known, runs) ==
    [mode |-> "hashed", opened |-> FALSE, recheck |-> r, cursor |-> Empty,
     bulkUpdate |-> <<>>, closed |-> FALSE, out |-> <<>>, known |-> known, runs |-> runs,
     batches |-> <<>>, undefs |-> 0, threw |-> FALSE, quiet |-> TRUE]

InitIter ==
    /\ db0 \in IterDbs
    /\ db = db0
    /\ \E r \in BOOLEAN :
          iter = NewIter(r, [id \in HashedIds(db0) |->
                                [hash |-> calculateHash(Content(id)),
                                 size |-> estimateDocSize(Content(id)),
                                 doc |-> Content(id)]], 1)
    /\ txes = <<>>
    /\ pc = "done"
    /\ idx = 1
    /\ bulk = EmptyBulk
    /\ bulkOps = Empty
    /\ writes = <<>>
    /\ applied = <<>>
    /\ result = <<>>
    /\ rawIdx = 1
    /\ moveIn = NoMove
    /\ read = NoRead
    /\ lim = NoLim
    /\ patch = NoPatch
    /\ qry = NoQuery

\* find() called again once the previous iterator was closed
IterFind ==
    /\ iter.mode \in {"hashed", "non-hashed"}
    /\ iter.closed
    /\ iter.runs < MaxIterations
    /\ \E r \in BOOLEAN : iter' = NewIter(r, iter.known, iter.runs + 1)
    /\ UNCHANGED <<db, db0, txes, pc, idx, bulk, bulkOps, writes, applied, result, rawIdx, moveIn, otherVars>>

\* next(): opens the cursor on the first call, takes the next document, switches to
\* the non-hashed cursor when the hashed one is exhausted, and for a document
\* without digest computes one and buffers its write-back
IterNext ==
    /\ iter.mode \in {"hashed", "non-hashed"}
    /\ ~iter.closed
    /\ LET c0 == IF ~iter.opened /\ iter.recheck THEN invalidateAll(db) ELSE db
           cur0 == IF ~iter.opened THEN findHashed(c0) ELSE iter.cursor
           switch == DOMAIN cur0 = {} /\ iter.mode = "hashed"
           mode1 == IF switch THEN "non-hashed" ELSE iter.mode
           cur1 == IF switch THEN findNonHashed(c0) ELSE cur0
       IN  IF DOMAIN cur1 = {}
           THEN /\ iter.undefs < MaxUndefined
                /\ db' = c0
                /\ iter' = [iter EXCEPT !.opened = TRUE, !.mode = mode1, !.cursor = Empty,
                                         !.undefs = @ + 1]
           ELSE \E id \in DOMAIN cur1 :
                  LET y == nextRecord(cur1[id], iter.bulkUpdate)
                      out1 == Append(iter.out,
                                     [id |-> y.id, hash |-> y.hash, size |-> y.size,
                                      computed |-> y.computed, digest |-> y.digest,
                                      doc |-> y.doc,
                                      buffered |-> y.bulkUpdate # iter.bulkUpdate,
                                      before |-> IF id \in DOMAIN iter.known
                                                 THEN <<iter.known[id]>> ELSE <<>>])
                      f == IF y.computed THEN flush(c0, y.bulkUpdate, FALSE)
                           ELSE [db |-> c0, bulkUpdate |-> y.bulkUpdate, wrote |-> <<>>]
                  IN  /\ db' = f.db
                      /\ iter' = [iter EXCEPT !.opened = TRUE, !.mode = mode1,
                                               !.cursor = [j \in DOMAIN cur1 \ {id} |-> cur1[j]],
                                               !.bulkUpdate = f.bulkUpdate,
                                               !.batches = iter.batches \o f.wrote,
                                               !.out = out1,
                                               !.known = IF f.wrote # <<>>
                                                         THEN Persisted(iter.known, y.bulkUpdate, out1)
                                                         ELSE iter.known]
    /\ UNCHANGED <<db0, txes, pc, idx, bulk, bulkOps, writes, applied, result, rawIdx, moveIn, otherVars>>

\* close(): flush(true), then iterator.close(); before the first next() iterator is
\* undefined and iterator.close() throws
IterClose ==
    /\ iter.mode \in {"hashed", "non-hashed"}
    /\ ~iter.closed
    /\ LET f == flush(db, iter.bulkUpdate, TRUE) IN
          /\ db' = f.db
          /\ iter' = [iter EXCEPT !.bulkUpdate = f.bulkUpdate, !.cursor = Empty,
                                   !.closed = TRUE,
                                   !.threw = ~iter.opened,
                                   !.batches = iter.batches \o f.wrote,
                                   !.known = Persisted(iter.known, iter.bulkUpdate, iter.out)]
    /\ UNCHANGED <<db0, txes, pc, idx, bulk, bulkOps, writes, applied, result, rawIdx, moveIn, otherVars>>

\* a complete tx() call with one flat update of a document, its batched write executed
ConcurrentTx ==
    /\ iter.mode \in {"hashed", "non-hashed"}
    /\ \E id \in DOMAIN db :
          /\ db[id]["a"] < MaxContent
          /\ LET tx == Stamp(TxUpdate(id, "a" :> (db[id]["a"] + 1), FALSE), db[id]["a"]) IN
                db' = InEmittedOrder(db, updateBulk(EmptyBulk, tx))
          /\ iter' = [iter EXCEPT !.known = [j \in DOMAIN iter.known \ {id} |-> iter.known[j]],
                                   !.quiet = FALSE]
    /\ UNCHANGED <<db0, txes, pc, idx, bulk, bulkOps, writes, applied, result, rawIdx, moveIn, otherVars>>

NextIter == IterFind \/ IterNext \/ IterClose \/ ConcurrentTx

SpecIter == InitIter /\ [][NextIter]_vars

\* C6: a stored digest that is not empty was computed from the current content of
\* its document
C6_DigestIsCurrent ==
    \A id \in DOMAIN db :
        IsHashed(db[id]) => db[id][HASH] = digestString(Without(db[id], HASH))

\* C19: a document read with a non-empty stored digest, forceRecheck unset, is
\* yielded without computing a hash and without buffering a write-back; its hash and
\* size are the two parts of the stored hash|sizeHex, and they are the hash and the
\* size of the record that was computed and persisted for it when no write touched
\* the document since
C19_ParsedFromStored ==
    ~iter.recheck =>
        \A n \in 1..Len(iter.out) :
            LET r == iter.out[n] IN
                r.digest \notin {NULL, EmptyString} =>
                    /\ ~r.computed
                    /\ ~r.buffered
                    /\ r.digest = r.hash \o <<"|">> \o toHex(r.size)
                    /\ r.before # <<>> =>
                          (r.hash = r.before[1].hash /\ r.size = r.before[1].size)

\* a second iteration yields, parsed, the record the first one computed and persisted
C19_Witness ==
    /\ iter.runs = 2
    /\ ~iter.recheck
    /\ \E n \in 1..Len(iter.out) :
          LET r == iter.out[n] IN
             /\ db0[r.id][HASH] = NULL
             /\ ~r.computed
             /\ r.before # <<>>
             /\ r.hash = calculateHash(r.before[1].doc)
             /\ r.size = estimateDocSize(r.before[1].doc)
             /\ r.size >= 16

\* C20: with forceRecheck set every yielded record is freshly computed, none parsed
\* from a stored digest, and for a document hashed before whose content is unchanged
\* the recomputed hash is the hash of its earlier record
C20_RecheckRecomputes ==
    iter.recheck =>
        \A n \in 1..Len(iter.out) :
            LET r == iter.out[n] IN
                /\ r.computed
                /\ r.digest \in {NULL, EmptyString}
                /\ (r.before # <<>> /\ r.before[1].doc = r.doc) => r.hash = r.before[1].hash

\* a recheck iteration recomputes the record of a document that was stored hashed
C20_Witness ==
    /\ iter.recheck
    /\ \E n \in 1..Len(iter.out) :
          LET r == iter.out[n] IN
             /\ IsHashed(db0[r.id])
             /\ r.computed
             /\ r.before # <<>>
             /\ r.before[1].doc = r.doc
             /\ r.hash = r.before[1].hash

\* C21: no write-back bulk write of the iterator holds more than the limit of
\* entries (1000 in the source), and the buffer holds no more than that when next()
\* has returned
C21_BatchesWithinLimit ==
    /\ \A n \in 1..Len(iter.batches) : Len(iter.batches[n]) <= FlushLimit
    /\ Len(iter.bulkUpdate) <= FlushLimit

\* C22: once close() has completed the buffer is empty and, for every freshly
\* computed record the iteration yielded, a bulk write of the iterator has set the
\* hash|sizeHex digest of that record on its document
C22_CloseDrains ==
    iter.closed =>
        /\ iter.bulkUpdate = <<>>
        /\ \A n \in 1..Len(iter.out) :
              iter.out[n].computed =>
                  \E b \in 1..Len(iter.batches) : \E j \in 1..Len(iter.batches[b]) :
                      iter.batches[b][j] =
                          UpdateOne("_id" :> iter.out[n].id,
                                    "$set" :> (HASH :> (iter.out[n].hash \o <<"|">>
                                                        \o toHex(iter.out[n].size))))

\* close() wrote the one entry that next() had left in the buffer
C22_Witness ==
    /\ iter.closed
    /\ Len(iter.batches) = 1
    /\ Len(iter.batches[1]) = 1
    /\ \E n \in 1..Len(iter.out) :
          iter.out[n].computed /\ IsHashed(db[iter.out[n].id])

(***************************************************************************)
(* Coalescing of flat patches in the update map                            *)
(***************************************************************************)

IsFlatMixin(tx) == tx._class = "TxMixin" /\ ~isOperator(tx.attributes)

IsFlat(tx) ==
    "objectId" \in DOMAIN tx /\ (IsFlatUpdate(Unwrapped(tx)) \/ IsFlatMixin(Unwrapped(tx)))

\* the key/value pairs a flat update or a flat mixin-apply writes
FlatPatch(tx) ==
    IF tx._class = "TxMixin"
    THEN ("modifiedBy" :> tx.modifiedBy @@ "modifiedOn" :> tx.modifiedOn) @@
         translateMixinAttrs(tx.mixin, tx.attributes)
    ELSE ("modifiedBy" :> tx.modifiedBy @@ "modifiedOn" :> tx.modifiedOn @@ HASH :> NULL) @@
         tx.operations

\* the translated flat transactions of the batch that write the document id
FlatOn(id) == {n \in 1..(idx - 1) : IsFlat(txes[n]) /\ TargetId(txes[n]) = id}

Writers(id, k) == {n \in FlatOn(id) : k \in DOMAIN FlatPatch(Unwrapped(txes[n]))}

Last(S) == CHOOSE n \in S : \A m \in S : m <= n

\* C11: the update-map entry of an id is the right-biased merge of the flat patches
\* translated for it: it has exactly the keys some patch wrote, each with the value
\* of the last patch that wrote it, and the provenance of the last transaction
C11_EntryIsMerge ==
    \A id \in {"d1", "d2"} :
        IF FlatOn(id) = {}
        THEN ~MapHas(bulk.update, id)
        ELSE /\ MapHas(bulk.update, id)
             /\ Cardinality({n \in 1..Len(bulk.update) : bulk.update[n].id = id}) = 1
             /\ LET upd == MapGet(bulk.update, id) IN
                 /\ DOMAIN upd = {k \in DOMAIN upd : Writers(id, k) # {}}
                 /\ \A n \in FlatOn(id) : DOMAIN FlatPatch(Unwrapped(txes[n])) \subseteq DOMAIN upd
                 /\ \A k \in DOMAIN upd :
                       upd[k] = FlatPatch(Unwrapped(txes[Last(Writers(id, k))]))[k]
                 /\ upd["modifiedOn"] = txes[Last(FlatOn(id))].modifiedOn

C11_Witness ==
    /\ Translated
    /\ \E id \in {"d1", "d2"} : \E m, n \in FlatOn(id) :
          /\ m < n
          /\ IsFlatMixin(Unwrapped(txes[m])) /\ IsFlatUpdate(Unwrapped(txes[n]))
          /\ \E k \in DOMAIN MapGet(bulk.update, id) : Writers(id, k) = {m}
          /\ MapGet(bulk.update, id)["modifiedOn"] = txes[n].modifiedOn
          /\ txes[m].modifiedOn # txes[n].modifiedOn

(***************************************************************************)
(* findAll and load: one read call on a domain whose documents refer to    *)
(* each other through the attribute ref.  The lookup of the pipeline path  *)
(* is ref: [Class, { ref: [Class, ...] }], nested read.depth times.        *)
(***************************************************************************)
txVars == <<db0, txes, pc, idx, bulk, bulkOps, writes, applied, result, rawIdx, moveIn, iter>>

ReadIds == <<"d1", "d2", "d3">>

Ids(seq) == {seq[n] : n \in 1..Len(seq)}

ReadDoc(id, ref, h) ==
    LET base == IF ref = "" THEN "_id" :> id ELSE "_id" :> id @@ "ref" :> ref
    IN  IF h = "absent" THEN base
        ELSE IF h = "null" THEN base @@ HASH :> NULL
        ELSE Hashed(base)

ReadDbs ==
    { ("d1" :> ReadDoc("d1", r1, h[1]) @@ "d2" :> ReadDoc("d2", r2, h[2])
        @@ "d3" :> ReadDoc("d3", "", h[3])) :
        r1 \in {"d2", ""}, r2 \in {"d3", "d1", ""},
        h \in [1..3 -> {"absent", "null", "hashed"}] }

\* stripHash on one document and on an array of documents
stripHashDoc(d) == IF HASH \in DOMAIN d THEN Without(d, HASH) ELSE d

stripHash(docs) == [n \in 1..Len(docs) |-> stripHashDoc(docs[n])]

\* the documents of c with an id in q, in id order
FindIn(c, q) ==
    LET hit(id) == id \in q /\ id \in DOMAIN c
    IN  [n \in 1..Len(SelectSeq(ReadIds, hit)) |-> c[SelectSeq(ReadIds, hit)[n]]]

\* the output alias of the lookup step of nesting level k
RECURSIVE LookupKey(_)
LookupKey(k) == IF k = 1 THEN "ref_lookup" ELSE LookupKey(k - 1) \o "ref_lookup"

\* the documents the lookup step of level k joins to a row: level 1 follows ref of
\* the row, level 2 follows ref of the documents joined at level 1; from level 3 on
\* localField is parent_lookup.parent_lookup.ref, a path no row has
Joined(c, d, k) ==
    LET step(from) == IF from # <<>> /\ "ref" \in DOMAIN from[1] /\ from[1]["ref"] \in DOMAIN c
                      THEN <<c[from[1]["ref"]]>> ELSE <<>>
    IN  IF k = 1 THEN step(<<d>>)
        ELSE IF k = 2 THEN step(step(<<d>>))
        ELSE <<>>

\* the row the aggregation returns for d: the document and one array per lookup step
aggregate(c, d, depth) ==
    [key \in DOMAIN d \cup {LookupKey(k) : k \in 1..depth} |->
        IF key \in DOMAIN d THEN d[key]
        ELSE Joined(c, d, CHOOSE k \in 1..depth : LookupKey(k) = key)]

\* fillLookupValue from level k on: what is stored under $lookup.ref of the target
\* of level k.  Absent (<<>>) when the array of the level is empty.
RECURSIVE Nested(_, _, _)
Nested(row, k, depth) ==
    LET arr == row[LookupKey(k)] IN
    IF arr = <<>> THEN <<>>
    ELSE IF k = depth THEN <<arr[1]>>
    ELSE LET below == Nested(row, k + 1, depth) IN
         << arr[1] @@ "$lookup" :> (IF below = <<>> THEN Empty ELSE "ref" :> below[1]) >>

fillLookupValue(row, depth) ==
    IF depth = 0 THEN row
    ELSE LET top == Nested(row, 1, depth) IN
         row @@ "$lookup" :> (IF top = <<>> THEN Empty ELSE "ref" :> top[1])

\* for (const [, v] of Object.entries(row.$lookup)) this.stripHash(v)
stripLookups(row) ==
    IF "$lookup" \notin DOMAIN row THEN row
    ELSE [row EXCEPT !["$lookup"] = [key \in DOMAIN @ |-> stripHashDoc(@[key])]]

clearExtraLookups(row) ==
    [key \in DOMAIN row \ {LookupKey(k) : k \in 1..MaxDepth} |-> row[key]]

findWithPipeline(c, q, depth) ==
    LET found == FindIn(c, q)
        rows == [n \in 1..Len(found) |->
                   clearExtraLookups(stripLookups(fillLookupValue(
                       aggregate(c, found[n], depth), depth)))]
    IN  stripHash(rows)

InitRead ==
    /\ db0 \in ReadDbs
    /\ db = db0
    /\ read = NoRead
    /\ lim = NoLim
    /\ patch = NoPatch
    /\ qry = NoQuery
    /\ txes = <<>>
    /\ pc = "done"
    /\ idx = 1
    /\ bulk = EmptyBulk
    /\ bulkOps = Empty
    /\ writes = <<>>
    /\ applied = <<>>
    /\ result = <<>>
    /\ rawIdx = 1
    /\ moveIn = NoMove
    /\ iter = NoIter

\* findAll with limit 1 or a string _id: findOne, then stripHash of the document
FindOne ==
    /\ read.path = "none"
    /\ \E id \in Ids(ReadIds) :
          read' = [path |-> "point", depth |-> 0, rows |-> stripHash(FindIn(db, {id}))]
    /\ UNCHANGED <<db, txVars, lim, patch, qry>>

\* findAll without lookup: the cursor is read to an array, then stripHash
FindCursor ==
    /\ read.path = "none"
    /\ \E q \in SUBSET Ids(ReadIds) :
          read' = [path |-> "cursor", depth |-> 0, rows |-> stripHash(FindIn(db, q))]
    /\ UNCHANGED <<db, txVars, lim, patch, qry>>

\* findAll with a lookup in the options
FindPipeline ==
    /\ read.path = "none"
    /\ \E q \in SUBSET Ids(ReadIds), depth \in 1..MaxDepth :
          read' = [path |-> "pipeline", depth |-> depth,
                   rows |-> findWithPipeline(db, q, depth)]
    /\ UNCHANGED <<db, txVars, lim, patch, qry>>

\* load(domain, docs)
Load ==
    /\ read.path = "none"
    /\ \E q \in SUBSET Ids(ReadIds) :
          read' = [path |-> "load", depth |-> 0,
                   rows |-> IF q = {} THEN <<>> ELSE stripHash(FindIn(db, q))]
    /\ UNCHANGED <<db, txVars, lim, patch, qry>>

NextRead == FindOne \/ FindCursor \/ FindPipeline \/ Load

SpecRead == InitRead /\ [][NextRead]_vars

\* the digest field is a key of the document or of a document joined under it
RECURSIVE HasDigest(_)
HasDigest(d) ==
    \/ HASH \in DOMAIN d
    \/ "$lookup" \in DOMAIN d /\ \E key \in DOMAIN d["$lookup"] : HasDigest(d["$lookup"][key])

\* C12: no document returned by findAll or load, and no document joined under
\* $lookup at any depth of a returned row, contains the digest field
C12_NoDigestReturned ==
    \A n \in 1..Len(read.rows) : ~HasDigest(read.rows[n])

(***************************************************************************)
(* The result array of tx().                                               *)
(***************************************************************************)

\* the documents in the result array: the documents of the find after the flush
\* and the values of the raw fetch-and-update calls
ResultDocs ==
    {result[n] : n \in {m \in 1..Len(result) : "object" \notin DOMAIN result[m]}}
    \cup UNION {Ids(result[n].object) : n \in {m \in 1..Len(result) : "object" \in DOMAIN result[m]}}

\* C13: no object in the result array of tx() contains the digest field
C13_ResultHasNoDigest == \A d \in ResultDocs : HASH \notin DOMAIN d

(***************************************************************************)
(* The bulk flush under the write limiter: concurrent callers of tx(),     *)
(* each flushing the operations of one domain through pushBulk.            *)
(***************************************************************************)
readVars == <<db, txVars, read>>

\* rateLimit = new RateLimiter(parseInt(process.env.TX_RLIMIT ?? '5'))
TX_RLIMIT == 5

Callers == 1..MaxCallers

\* RateLimiter.exec: the operation starts when fewer than rate operations are in
\* progress, and its slot is given back when its promise settles
execCanStart(l) == Cardinality(l.processing) < TX_RLIMIT

execStart(l, c) == [l EXCEPT !.processing = @ \cup {c}]

execEnd(l, c) == [l EXCEPT !.processing = @ \ {c}]

InitLimit ==
    /\ lim = [pc |-> [c \in Callers |-> "idle"], processing |-> {}, issued |-> {}]
    /\ db0 \in InitDbs
    /\ db = db0
    /\ txes = <<>>
    /\ pc = "done"
    /\ idx = 1
    /\ bulk = EmptyBulk
    /\ bulkOps = Empty
    /\ writes = <<>>
    /\ applied = <<>>
    /\ result = <<>>
    /\ rawIdx = 1
    /\ moveIn = NoMove
    /\ iter = NoIter
    /\ read = NoRead
    /\ patch = NoPatch
    /\ qry = NoQuery

\* pushBulk and _pushBulk up to rateLimit.exec: the operations of the caller are
\* put in this.bulkOps, taken out again and the map is cleared
CallPushBulk(c) ==
    /\ lim.pc[c] = "idle"
    /\ lim' = [lim EXCEPT !.pc[c] = "waiting"]
    /\ UNCHANGED <<readVars, patch, qry>>

\* mutant: coll.bulkWrite is called without rateLimit.exec around it
StartWrite_NoLimiter(c) ==
    /\ lim.pc[c] = "waiting"
    /\ lim' = [lim EXCEPT !.pc[c] = "writing",
                          !.issued = @ \cup {[caller |-> c, inside |-> c \in lim.processing]}]
    /\ UNCHANGED <<readVars, patch, qry>>

\* await this.rateLimit.exec(() => ... coll.bulkWrite(ops, ...))
StartWrite(c) ==
    /\ lim.pc[c] = "waiting"
    /\ execCanStart(lim)
    /\ LET l == execStart(lim, c) IN
       lim' = [l EXCEPT !.pc[c] = "writing",
                        !.issued = @ \cup {[caller |-> c, inside |-> c \in l.processing]}]
    /\ UNCHANGED <<readVars, patch, qry>>

\* the promise of coll.bulkWrite settles and exec gives the slot back
EndWrite(c) ==
    /\ lim.pc[c] = "writing"
    /\ lim' = [execEnd(lim, c) EXCEPT !.pc[c] = "done"]
    /\ UNCHANGED <<readVars, patch, qry>>

NextLimit == \E c \in Callers : CallPushBulk(c) \/ StartWrite(c) \/ EndWrite(c)

SpecLimit == InitLimit /\ [][NextLimit]_vars

\* the callers whose batched write was issued and has not settled
InFlight == {c \in Callers : lim.pc[c] = "writing"}

\* C14: at most TX_RLIMIT batched writes of the bulk flush are in flight at a time,
\* and every batched write of the flush is issued inside the write limiter
C14_WritesWithinLimit ==
    /\ Cardinality(InFlight) <= TX_RLIMIT
    /\ \A w \in lim.issued : w.inside

C14_Witness ==
    /\ Cardinality(InFlight) = TX_RLIMIT
    /\ \E c \in Callers : lim.pc[c] = "waiting"
    /\ \A c \in InFlight : [caller |-> c, inside |-> TRUE] \in lim.issued

(***************************************************************************)
(* update(): the operations map is written in batches; a failed batch is   *)
(* put back and the batch size drops to 1.  A batched write fails or       *)
(* succeeds as the database decides; a failed unordered write has applied  *)
(* some of its entries and not others.                                     *)
(***************************************************************************)
limVars == <<txVars, read, lim, qry>>

PatchIds == <<"d1", "d2", "d3", "d4", "d5", "d6">>

PatchDb(n) == [id \in {PatchIds[k] : k \in 1..n} |-> Hashed(Content(id))]

\* const part = ops.splice(0, skip)
Take(ops, skip) == SubSeq(ops, 1, IF skip < Len(ops) THEN skip ELSE Len(ops))

Drop(ops, skip) == SubSeq(ops, (IF skip < Len(ops) THEN skip ELSE Len(ops)) + 1, Len(ops))

\* the entry of the write for id: { updateOne: { filter: { _id }, update: { $set: { ...set, '%hash%': null } } } }
patchOp(id) == UpdateOne("_id" :> id, "$set" :> ("a" :> 2 @@ HASH :> NULL))

\* the entries in done are executed by the database
bulkWritePatch(c, done) ==
    [id \in DOMAIN c |-> IF id \in done THEN ExecOp(c, patchOp(id))[id] ELSE c[id]]

\* mutant: the failed batch is not put back
catchHandler_NoRetry(p, part) == [p EXCEPT !.skip = 1]

\* mutant: the failed batch is put back and the batch size stays
catchHandler_KeepSkip(p, part) == [p EXCEPT !.ops = @ \o part]

\* catch (err): if (skip !== 1) { ops.push(...part); skip = 1 }
catchHandler(p, part) ==
    IF p.skip # 1 THEN [p EXCEPT !.ops = @ \o part, !.skip = 1] ELSE p

InitPatch ==
    /\ \E n \in 0..MaxOps :
          /\ db0 = PatchDb(n)
          /\ patch = [phase |-> "loop", input |-> DOMAIN db0, ops |-> SubSeq(PatchIds, 1, n),
                      skip |-> BatchSize, attempts |-> [id \in DOMAIN db0 |-> 0],
                      applied |-> {}, failedBatch |-> {}, alone |-> {}, failedAlone |-> {}]
    /\ db = db0
    /\ txes = <<>>
    /\ pc = "done"
    /\ idx = 1
    /\ bulk = EmptyBulk
    /\ bulkOps = Empty
    /\ writes = <<>>
    /\ applied = <<>>
    /\ result = <<>>
    /\ rawIdx = 1
    /\ moveIn = NoMove
    /\ iter = NoIter
    /\ read = NoRead
    /\ lim = NoLim
    /\ qry = NoQuery

\* one turn of while (ops.length > 0): splice, bulkWrite, catch
PatchWrite ==
    /\ patch.phase = "loop"
    /\ patch.ops # <<>>
    /\ LET part == Take(patch.ops, patch.skip)
           ids == Ids(part)
           p1 == [patch EXCEPT !.ops = Drop(@, patch.skip),
                               !.attempts = [id \in DOMAIN @ |-> IF id \in ids THEN @[id] + 1 ELSE @[id]],
                               !.alone = IF patch.skip = 1 THEN @ \cup ids ELSE @]
       IN  /\ \A id \in ids : patch.attempts[id] < MaxAttempts
           /\ \/ /\ patch' = [p1 EXCEPT !.applied = @ \cup ids]
                 /\ db' = bulkWritePatch(db, ids)
              \/ \E done \in (SUBSET ids) \ {ids} :
                    /\ patch' = catchHandler(
                          [p1 EXCEPT !.applied = @ \cup done,
                                     !.failedBatch = IF patch.skip # 1 THEN @ \cup ids ELSE @,
                                     !.failedAlone = IF patch.skip = 1 THEN @ \cup ids ELSE @ \ done],
                          part)
                    /\ db' = bulkWritePatch(db, done)
    /\ UNCHANGED limVars

\* the loop is left and the promise of update() resolves
PatchReturn ==
    /\ patch.phase = "loop"
    /\ patch.ops = <<>>
    /\ patch' = [patch EXCEPT !.phase = "resolved"]
    /\ UNCHANGED <<db, limVars>>

NextPatch == PatchWrite \/ PatchReturn

SpecPatch == InitPatch /\ [][NextPatch]_vars

\* update() runs to its end when it is not suspended for ever
SpecPatchFair == SpecPatch /\ WF_vars(NextPatch)

\* C15: when update() has returned, every entry of a failed batch was written again
\* in a write of its own, and an entry is not applied only when the write of its
\* own failed
C15_RetriedOneByOne ==
    patch.phase = "resolved" =>
        /\ patch.failedBatch \subseteq patch.alone
        /\ \A id \in patch.input : id \notin patch.applied => id \in patch.failedAlone
        /\ \A id \in patch.input : id \in patch.applied <=> db[id][HASH] = NULL

C15_Witness ==
    /\ patch.phase = "resolved"
    /\ \E id \in patch.failedBatch : id \in patch.applied /\ patch.attempts[id] = 2
    /\ \E id \in patch.failedBatch : id \notin patch.applied /\ id \in patch.failedAlone
    /\ \E id \in patch.input : id \notin patch.failedBatch /\ id \in patch.applied

\* the batch size only goes from BatchSize to 1
SkipOnlyDrops == patch'.skip <= patch.skip /\ patch'.skip \in {BatchSize, 1}

\* C16: update() terminates whatever writes fail: no entry is written more than
\* twice, the batch size never goes back up, and the call returns
C16_BoundedRetry ==
    /\ [](\A id \in patch.input : patch.attempts[id] <= 2)
    /\ [][SkipOnlyDrops]_vars
    /\ <>(patch.phase = "resolved")

C16_Witness ==
    /\ patch.phase = "resolved"
    /\ patch.skip = 1
    /\ Cardinality(patch.input) > BatchSize
    /\ \E id \in patch.input : patch.attempts[id] = 2
    /\ \E id \in patch.input : patch.attempts[id] = 1 /\ id \in patch.failedAlone

\* C17: update() resolves only when every entry of the operations map is applied:
\* an entry whose write of its own failed makes the call reject
C17_FailureSurfaces ==
    patch.phase = "resolved" => patch.failedAlone = {} /\ patch.input \subseteq patch.applied

(***************************************************************************)
(* Transactions of unknown or unsupported kind.                            *)
(***************************************************************************)

KnownKinds == {"TxCreateDoc", "TxCollectionCUD", "TxUpdateDoc", "TxRemoveDoc", "TxMixin"}

IsUnknown(tx) == tx._class \notin KnownKinds

\* the bulk the transactions of known kind of seq give, in their order
RECURSIVE BulkOfKnown(_, _)
BulkOfKnown(b, seq) ==
    IF seq = <<>> THEN b
    ELSE BulkOfKnown(IF IsUnknown(Head(seq)) THEN b ELSE updateBulk(b, Head(seq)), Tail(seq))

\* C18: a transaction of unknown or unsupported kind raises no error and leaves the
\* bulk as it was, and the other transactions of the batch are translated and
\* flushed as if it were not in the batch
C18_UnknownIgnored ==
    /\ pc = "rejected" => ~IsUnknown(txes[idx])
    /\ pc # "rejected" => bulk = BulkOfKnown(EmptyBulk, SubSeq(txes, 1, idx - 1))
    /\ Flushed =>
          LET ops == bulkToOps(BulkOfKnown(EmptyBulk, txes)) IN
          writes = IF ops = <<>> THEN <<>> ELSE <<ops>>

C18_Witness ==
    /\ Flushed
    /\ Len(writes) = 1
    /\ Len(txes) = 2
    /\ \E m, n \in 1..2 : IsUnknown(txes[m]) /\ ~IsUnknown(txes[n]) /\ m < n
    /\ Len(writes[1]) >= 1

(***************************************************************************)
(* Compiling a query to a native filter: the class hierarchy, the          *)
(* translation of field paths, the class constraint, $like patterns.       *)
(*                                                                         *)
(* A string of a key or a pattern is the sequence of its symbols, so that  *)
(* split, includes, endsWith and concatenation are computed on it.         *)
(***************************************************************************)
MaxSegments == 3   \* segments of a dotted field path

\* every other call is idle while a query is compiled
NoOtherCall ==
    /\ db = Empty
    /\ db0 = Empty
    /\ txes = <<>>
    /\ pc = "done"
    /\ idx = 1
    /\ bulk = EmptyBulk
    /\ bulkOps = Empty
    /\ writes = <<>>
    /\ applied = <<>>
    /\ result = <<>>
    /\ rawIdx = 1
    /\ moveIn = NoMove
    /\ iter = NoIter
    /\ read = NoRead
    /\ lim = NoLim
    /\ patch = NoPatch

queryVars == <<db, txVars, read, lim, patch>>

\* the class hierarchy the adapter is given: Doc is core.class.Doc, M is a mixin of A
ClassDoc == "Doc"

Parent(h) ==
    "A" :> ClassDoc @@ "B" :> (IF h = "flat" THEN ClassDoc ELSE "A") @@ "M" :> "A"
    @@ "C" :> ClassDoc

Hierarchies == {"deep", "flat"}

AllClasses == {ClassDoc, "A", "B", "C", "M"}

isMixin(c) == c = "M"

\* hierarchy.getAncestors: the class and the classes it extends, nearest first
RECURSIVE getAncestors(_, _)
getAncestors(h, c) == IF c = ClassDoc THEN <<c>> ELSE <<c>> \o getAncestors(h, Parent(h)[c])

SeqToSet(s) == {s[n] : n \in 1..Len(s)}

\* hierarchy.getBaseClass: for a mixin the nearest ancestor that is a class
getBaseClass(h, c) ==
    IF isMixin(c)
    THEN LET a == getAncestors(h, c)
         IN  a[CHOOSE n \in 1..Len(a) : ~isMixin(a[n]) /\ \A j \in 1..(n - 1) : isMixin(a[j])]
    ELSE c

\* hierarchy.getDescendants: the class itself and everything that extends it
ClassOrder == <<ClassDoc, "A", "B", "C", "M">>

getDescendants(h, c) == SelectSeq(ClassOrder, LAMBDA d : c \in SeqToSet(getAncestors(h, d)))

\* the attributes the classes declare: name -> the class it is an attribute of
AttributeOf == <<"name">> :> "A" @@ <<"mattr">> :> "M" @@ <<"b">> :> "B" @@ <<"status">> :> "A"

\* attr.type._class of the attributes
AttributeType == <<"name">> :> "TypeString" @@ <<"mattr">> :> "TypeString"
                 @@ <<"b">> :> "TypeString" @@ <<"status">> :> "EnumOf"

\* hierarchy.findAttribute(clazz, key): the owner of the attribute, <<>> when the
\* class and its ancestors declare no such attribute
findAttribute(h, clazz, key) ==
    IF key \in DOMAIN AttributeOf /\ AttributeOf[key] \in SeqToSet(getAncestors(h, clazz))
    THEN <<AttributeOf[key]>> ELSE <<>>

includes(s, ch) == \E n \in 1..Len(s) : s[n] = ch

endsWith(s, ch) == Len(s) > 0 /\ s[Len(s)] = ch

\* key.split('.').filter((p) => p): the non-empty segments of a dotted path
RECURSIVE split(_, _)
split(s, ch) ==
    IF ~includes(s, ch) THEN <<s>>
    ELSE LET pos == indexOf(s, ch)
         IN  <<SubSeq(s, 1, pos)>> \o split(sliceFrom(s, pos + 1), ch)

segments(key) == SelectSeq(split(key, "."), LAMBDA p : p # <<>>)

\* the last segment of a dotted path
LastSegment(key) == LET a == segments(key) IN IF a = <<>> THEN <<>> ELSE a[Len(a)]

\* a mixin check that looks the attribute up by the last segment of any path
checkMixinKey_NoGuard(h, key, clazz, mixins) ==
    LET attr == findAttribute(h, clazz, LastSegment(key))
    IN  IF attr # <<>> /\ isMixin(attr[1])
        THEN [key |-> <<attr[1], ".">> \o key, mixins |-> mixins \cup {attr[1]}]
        ELSE [key |-> key, mixins |-> mixins]

\* checkMixinKey: a path without '.' that names an attribute of a mixin gets the
\* mixin as prefix
checkMixinKey(h, key, clazz, mixins) ==
    IF ~includes(key, ".")
    THEN LET attr == findAttribute(h, clazz, key)
         IN  IF attr # <<>> /\ isMixin(attr[1])
             THEN [key |-> <<attr[1], ".">> \o key, mixins |-> mixins \cup {attr[1]}]
             ELSE [key |-> key, mixins |-> mixins]
    ELSE [key |-> key, mixins |-> mixins]

\* the loop of translateKey from index i (counted from 0) on
RECURSIVE translateKeyFrom(_, _, _, _, _, _, _)
translateKeyFrom(h, arr, i, tKey, lookup, clazz, mixins) ==
    IF i >= Len(arr) THEN [key |-> tKey, lookup |-> lookup, mixins |-> mixins]
    ELSE IF arr[i + 1] = <<"$lookup">>
    THEN LET next == IF i + 2 <= Len(arr) THEN arr[i + 2] ELSE <<"undefined">>
             c == checkMixinKey(h, tKey \o next \o <<"_lookup">>, clazz, mixins)
         IN  translateKeyFrom(h, arr, i + 2, c.key, TRUE, clazz, c.mixins)
    ELSE LET t1 == IF ~endsWith(tKey, ".") /\ i > 0 THEN tKey \o <<".">> ELSE tKey
             t2 == t1 \o arr[i + 1]
             t3 == IF i # Len(arr) - 1 THEN t2 \o <<".">> ELSE t2
             c == checkMixinKey(h, t3, clazz, mixins)
         IN  translateKeyFrom(h, arr, i + 1, c.key, lookup, clazz, c.mixins)

translateKey(h, key, clazz, mixins) ==
    translateKeyFrom(h, segments(key), 0, <<>>, FALSE, clazz, mixins)

\* the paths a caller writes: up to MaxSegments segments joined by '.'
SegmentNames == {"name", "mattr", "$lookup", "a"}

RECURSIVE join(_)
join(segs) ==
    IF segs = <<>> THEN <<>>
    ELSE IF Len(segs) = 1 THEN <<segs[1]>>
    ELSE <<segs[1], ".">> \o join(Tail(segs))

KeyPaths == {join(segs) : segs \in Seqs(SegmentNames, MaxSegments) \ {<<>>}}

InitKey ==
    /\ qry \in [phase : {"key"}, h : Hierarchies, clazz : {"A", "B", "M"}, key : KeyPaths,
                once : {<<>>}, twice : {<<>>}]
    /\ NoOtherCall

\* translateKey on the path the caller wrote
TranslateKey ==
    /\ qry.phase = "key"
    /\ qry' = [qry EXCEPT !.phase = "once",
                          !.once = translateKey(qry.h, qry.key, qry.clazz, {}).key]
    /\ UNCHANGED queryVars

\* translateKey on the path it returned
TranslateKeyAgain ==
    /\ qry.phase = "once"
    /\ qry' = [qry EXCEPT !.phase = "twice",
                          !.twice = translateKey(qry.h, qry.once, qry.clazz, {}).key]
    /\ UNCHANGED queryVars

NextKey == TranslateKey \/ TranslateKeyAgain

SpecKey == InitKey /\ [][NextKey]_vars

\* C27: translating a translated path again, with the same class, returns the same
\* path; an attribute of a mixin carries the mixin prefix once
C27_TranslateKeyIdempotent ==
    qry.phase = "twice" =>
        /\ qry.twice = qry.once
        /\ qry.key = <<"mattr">> /\ qry.clazz = "M" => qry.twice = <<"M", ".", "mattr">>

\* a path that got a mixin prefix has been translated twice
C27_Witness ==
    /\ qry.phase = "twice"
    /\ qry.key = <<"mattr">>
    /\ qry.once # qry.key
    /\ qry.twice = <<"M", ".", "mattr">>

(***************************************************************************)
(* translateQuery: the base filter of a query, with its class constraint   *)
(***************************************************************************)
MaxClassList == 2   \* classes in the $in or the $nin list of a query

\* the value of a filter key: a string, an object with $in and $nin lists, or
\* { $exists: true }
Str(x) == [type |-> "string", v |-> x, hasIn |-> FALSE, in |-> <<>>, hasNin |-> FALSE, nin |-> <<>>]

Obj(hasIn, in, hasNin, nin) ==
    [type |-> "object", v |-> "", hasIn |-> hasIn, in |-> in, hasNin |-> hasNin, nin |-> nin]

In(classes) == Obj(TRUE, classes, FALSE, <<>>)

Exists == [type |-> "exists", v |-> "", hasIn |-> FALSE, in |-> <<>>, hasNin |-> FALSE, nin |-> <<>>]

KeyClass == <<"_class">>

KeySpace == <<"space">>

\* the non-mixin descendants of the base class, in the order of the hierarchy
concreteDescendants(h, baseClass) ==
    SelectSeq(getDescendants(h, baseClass), LAMBDA it : ~isMixin(it))

\* a class constraint that keeps a single class the query names, whatever it is
classConstraint_KeepGiven(h, baseClass, base) ==
    LET classes == concreteDescendants(h, baseClass)
    IN  IF KeyClass \notin DOMAIN base THEN In(classes)
        ELSE IF base[KeyClass].type = "string" THEN base[KeyClass]
        ELSE LET given == base[KeyClass]
                 d1 == IF given.hasIn
                       THEN SelectSeq(given.in, LAMBDA c : c \in SeqToSet(classes)) ELSE classes
                 d2 == IF given.hasNin
                       THEN SelectSeq(d1, LAMBDA c : c \notin SeqToSet(given.nin)) ELSE d1
                 desc == SelectSeq(d2, LAMBDA it : ~isMixin(it))
             IN  IF Len(desc) = 1 THEN Str(desc[1]) ELSE In(desc)

\* the value translateQuery gives translatedBase._class when the base class is not
\* core.class.Doc
classConstraint(h, baseClass, base) ==
    LET classes == concreteDescendants(h, baseClass)
    IN  IF KeyClass \notin DOMAIN base THEN In(classes)
        ELSE IF base[KeyClass].type = "string"
        THEN IF base[KeyClass].v \notin SeqToSet(classes)
             THEN IF Len(classes) = 1 THEN Str(classes[1]) ELSE In(classes)
             ELSE base[KeyClass]
        ELSE LET given == base[KeyClass]
                 d1 == IF given.hasIn
                       THEN SelectSeq(given.in, LAMBDA c : c \in SeqToSet(classes)) ELSE classes
                 d2 == IF given.hasNin
                       THEN SelectSeq(d1, LAMBDA c : c \notin SeqToSet(given.nin)) ELSE d1
                 desc == SelectSeq(d2, LAMBDA it : ~isMixin(it))
             IN  IF Len(desc) = 1 THEN Str(desc[1]) ELSE In(desc)

\* the translated keys with their values, and the mixins whose attributes the query
\* names; t[key] is what translateKey returns for the key
translatedKeysOf(query, t) ==
    [base |-> [k \in {t[key].key : key \in {q \in DOMAIN query : ~t[q].lookup}} |->
                  query[CHOOSE key \in DOMAIN query : t[key].key = k /\ ~t[key].lookup]],
     lookup |-> [k \in {t[key].key : key \in {q \in DOMAIN query : t[q].lookup}} |->
                  query[CHOOSE key \in DOMAIN query : t[key].key = k /\ t[key].lookup]],
     mixins |-> UNION {t[key].mixins : key \in DOMAIN query}]

\* for (const key in query): const tkey = this.translateKey(key, clazz, mixins)
translatedKeys(h, clazz, query) ==
    translatedKeysOf(query, [key \in DOMAIN query |-> translateKey(h, key, clazz, {})])

Delete(f, k) == [j \in (DOMAIN f) \ {k} |-> f[j]]

Put(f, k, v) == [j \in (DOMAIN f) \cup {k} |-> IF j = k THEN v ELSE f[j]]

\* the last statement of translateQuery: a $in list of one class becomes the class
singleIn(base) ==
    IF /\ KeyClass \in DOMAIN base
       /\ base[KeyClass].hasIn /\ Len(base[KeyClass].in) = 1 /\ ~base[KeyClass].hasNin
    THEN Put(base, KeyClass, Str(base[KeyClass].in[1]))
    ELSE base

\* a compilation that writes the class constraint into the query it was given
translateQuery_InPlace(h, clazz, query, options) ==
    LET tr == translatedKeys(h, clazz, query)
        b0 == IF options.skipSpace THEN Delete(tr.base, KeySpace) ELSE tr.base
        baseClass == getBaseClass(h, clazz)
    IN  IF options.skipClass
        THEN [base |-> Delete(b0, KeyClass), lookup |-> tr.lookup, query |-> query]
        ELSE IF baseClass # ClassDoc
        THEN LET c == classConstraint(h, baseClass, b0)
                 b1 == Put(b0, KeyClass, c)
                 b2 == IF baseClass # clazz /\ clazz \notin tr.mixins
                       THEN Put(b1, <<clazz>>, Exists) ELSE b1
             IN  [base |-> singleIn(b2), lookup |-> tr.lookup, query |-> Put(query, KeyClass, c)]
        ELSE [base |-> singleIn(Delete(b0, KeyClass)), lookup |-> tr.lookup, query |-> query]

\* a compilation in which skipClass removes the class constraint and nothing else
translateQuery_GuardKept(h, clazz, query, options) ==
    LET tr == translatedKeys(h, clazz, query)
        b0 == IF options.skipSpace THEN Delete(tr.base, KeySpace) ELSE tr.base
        baseClass == getBaseClass(h, clazz)
    IN  IF baseClass # ClassDoc
        THEN LET b1 == IF options.skipClass THEN Delete(b0, KeyClass)
                       ELSE Put(b0, KeyClass, classConstraint(h, baseClass, b0))
                 b2 == IF baseClass # clazz /\ clazz \notin tr.mixins
                       THEN Put(b1, <<clazz>>, Exists) ELSE b1
             IN  [base |-> singleIn(b2), lookup |-> tr.lookup, query |-> query]
        ELSE [base |-> singleIn(Delete(b0, KeyClass)), lookup |-> tr.lookup, query |-> query]

\* translateQuery after its loop over the keys: tr is what the loop has collected
translateQueryOf(h, clazz, query, options, tr, baseClass) ==
    LET b0 == IF options.skipSpace THEN Delete(tr.base, KeySpace) ELSE tr.base
    IN  IF options.skipClass
        THEN [base |-> Delete(b0, KeyClass), lookup |-> tr.lookup, query |-> query]
        ELSE IF baseClass # ClassDoc
        THEN LET b1 == Put(b0, KeyClass, classConstraint(h, baseClass, b0))
                 b2 == IF baseClass # clazz /\ clazz \notin tr.mixins
                       THEN Put(b1, <<clazz>>, Exists) ELSE b1
             IN  [base |-> singleIn(b2), lookup |-> tr.lookup, query |-> query]
        ELSE [base |-> singleIn(Delete(b0, KeyClass)), lookup |-> tr.lookup, query |-> query]

\* translateQuery: the base filter, the lookup filter, and the query object as the
\* call leaves it
translateQuery(h, clazz, query, options) ==
    translateQueryOf(h, clazz, query, options, translatedKeys(h, clazz, query),
                     getBaseClass(h, clazz))

\* the documents of the domain: two of class A, one of them with the mixin M applied,
\* one of B and one of C
ClassDocs ==
    { [id |-> "a1", class |-> "A", name |-> "x", mixin |-> FALSE, mattr |-> ""],
      [id |-> "a2", class |-> "A", name |-> "y", mixin |-> TRUE, mattr |-> "1"],
      [id |-> "b1", class |-> "B", name |-> "x", mixin |-> FALSE, mattr |-> ""],
      [id |-> "c1", class |-> "C", name |-> "x", mixin |-> FALSE, mattr |-> ""] }

\* the classes a class constraint admits
Admits(val, c) ==
    IF val.type = "string" THEN c = val.v
    ELSE (val.hasIn => c \in SeqToSet(val.in)) /\ (val.hasNin => c \notin SeqToSet(val.nin))

\* whether a stored document satisfies a base filter
MatchesFilter(d, base) ==
    \A k \in DOMAIN base :
        IF k = KeyClass THEN Admits(base[k], d.class)
        ELSE IF base[k].type = "exists" THEN k = <<"M">> /\ d.mixin
        ELSE IF k = <<"name">> THEN d.name = base[k].v
        ELSE IF k = <<"_id">> THEN d.id = base[k].v
        ELSE IF k = <<"M", ".", "mattr">> THEN d.mixin /\ d.mattr = base[k].v
        ELSE FALSE

\* the _class a caller gives: none, one class, or lists to include and to exclude
ClassLists == Seqs({"A", "B", "C", "M"}, MaxClassList) \ {<<>>}

ExcludeLists == Seqs({"A", "B"}, MaxClassList) \ {<<>>}

ClassParts ==
    {<<>>} \cup {KeyClass :> Str(c) : c \in {"A", "B", "C", "M"}}
    \cup {KeyClass :> Obj(TRUE, in, FALSE, <<>>) : in \in ClassLists}
    \cup {KeyClass :> Obj(FALSE, <<>>, TRUE, nin) : nin \in ExcludeLists}
    \cup {KeyClass :> Obj(TRUE, in, TRUE, nin) : in \in ClassLists, nin \in ExcludeLists}

OtherParts == {<<>>, <<"name">> :> Str("x"), <<"mattr">> :> Str("1")}

Queries == {c @@ o : c \in ClassParts, o \in OtherParts}

InitClass ==
    /\ qry \in [phase : {"query"}, h : Hierarchies, clazz : AllClasses, query : Queries,
                options : [skipClass : BOOLEAN, skipSpace : {FALSE}],
                first : {<<>>}, second : {<<>>}, after : {<<>>}, rows : {{}}]
    /\ NoOtherCall

\* findAll: const mongoQuery = this.translateQuery(_class, query, options)
CompileQuery ==
    /\ qry.phase = "query"
    /\ LET t == translateQuery(qry.h, qry.clazz, qry.query, qry.options) IN
          qry' = [qry EXCEPT !.phase = "compiled", !.first = <<t>>, !.after = <<t.query>>]
    /\ UNCHANGED queryVars

\* findWithPipeline: const tquery = this.translateQuery(clazz, query, options), on the
\* query object findAll has compiled already
CompileAgain ==
    /\ qry.phase = "compiled"
    /\ LET t == translateQuery(qry.h, qry.clazz, qry.after[1], qry.options) IN
          qry' = [qry EXCEPT !.phase = "recompiled", !.second = <<t>>, !.after = <<t.query>>]
    /\ UNCHANGED queryVars

\* the documents the compiled base filter selects
FindRows ==
    /\ qry.phase \in {"compiled", "recompiled"}
    /\ LET t == IF qry.phase = "compiled" THEN qry.first[1] ELSE qry.second[1] IN
          qry' = [qry EXCEPT !.phase = "found",
                             !.rows = {d \in ClassDocs : MatchesFilter(d, t.base)}]
    /\ UNCHANGED queryVars

NextClass == CompileQuery \/ CompileAgain \/ FindRows

SpecClass == InitClass /\ [][NextClass]_vars

Compiled == qry.phase \in {"compiled", "recompiled", "found"} /\ qry.first # <<>>

ConcreteOfBase == SeqToSet(concreteDescendants(qry.h, getBaseClass(qry.h, qry.clazz)))

AdmittedClasses == {c \in AllClasses : Admits(qry.first[1].base[KeyClass], c)}

C24_SkipClass ==
    (Compiled /\ qry.options.skipClass) =>
        /\ KeyClass \notin DOMAIN qry.first[1].base
        /\ <<qry.clazz>> \notin DOMAIN qry.first[1].base
        /\ (qry.phase = "found" /\ DOMAIN qry.query \subseteq {KeyClass}) => qry.rows = ClassDocs

\* a query on the mixin M that names a class, compiled with skipClass, has returned
\* every document
C24_Witness ==
    /\ qry.phase = "found"
    /\ qry.options.skipClass
    /\ qry.clazz = "M"
    /\ qry.query = KeyClass :> Str("B")
    /\ qry.rows = ClassDocs

MaxPattern == 3   \* symbols of a $like pattern
MaxText == 3      \* characters of the string the pattern is matched against

NL == "\n"

\* the characters escapeLikeForRegexp escapes: - / \ ^ $ * + ? . ( ) | [ ] { }
RegexpMeta == {"-", "/", "\\", "^", "$", "*", "+", "?", ".", "(", ")", "|", "[", "]", "{", "}"}

RECURSIVE escapeLikeForRegexp(_)
escapeLikeForRegexp(s) ==
    IF s = <<>> THEN <<>>
    ELSE (IF Head(s) \in RegexpMeta THEN <<"\\", Head(s)>> ELSE <<Head(s)>>)
         \o escapeLikeForRegexp(Tail(s))

\* parts.join(sep)
RECURSIVE joinWith(_, _)
joinWith(parts, sep) ==
    IF parts = <<>> THEN <<>>
    ELSE IF Len(parts) = 1 THEN parts[1]
    ELSE parts[1] \o sep \o joinWith(Tail(parts), sep)

\* translateLikeQuery: { $regex: `^${...}$`, $options: 'i' }
translateLikeQuery(pattern) ==
    LET parts == split(pattern, "%")
        escaped == [n \in 1..Len(parts) |-> escapeLikeForRegexp(parts[n])]
    IN  [regex |-> <<"^">> \o joinWith(escaped, <<".", "*">>) \o <<"$">>, options |-> "i"]

\* the atoms of a regular expression: an escaped or plain character, '.', '^', '$',
\* each with the '*' that follows it
RECURSIVE Atoms(_)
Atoms(re) ==
    IF re = <<>> THEN <<>>
    ELSE LET esc == Head(re) = "\\" /\ Len(re) >= 2
             kind == IF esc THEN "char"
                     ELSE IF Head(re) = "." THEN "dot"
                     ELSE IF Head(re) = "^" THEN "bol"
                     ELSE IF Head(re) = "$" THEN "eol"
                     ELSE "char"
             ch == IF esc THEN re[2] ELSE Head(re)
             rest == IF esc THEN SubSeq(re, 3, Len(re)) ELSE Tail(re)
             star == rest # <<>> /\ Head(rest) = "*"
         IN  <<[kind |-> kind, ch |-> ch, star |-> star]>>
             \o Atoms(IF star THEN Tail(rest) ELSE rest)

Lower(ch) == IF ch = "T" THEN "t" ELSE IF ch = "X" THEN "x" ELSE ch

\* one character against one atom: '.' takes every character but a line break
AtomTakes(a, ch, options) ==
    IF a.kind = "dot" THEN ch # NL
    ELSE IF options = "i" THEN Lower(a.ch) = Lower(ch) ELSE a.ch = ch

\* the atoms from index n on match the string s from position j on (j characters
\* are consumed); '$' holds at the end and before a line break that ends the string
RECURSIVE MatchFrom(_, _, _, _, _)
MatchFrom(atoms, n, s, j, options) ==
    IF n > Len(atoms) THEN TRUE
    ELSE LET a == atoms[n] IN
        IF a.kind = "bol" THEN j = 0 /\ MatchFrom(atoms, n + 1, s, j, options)
        ELSE IF a.kind = "eol"
        THEN (j = Len(s) \/ (j = Len(s) - 1 /\ s[Len(s)] = NL))
             /\ MatchFrom(atoms, n + 1, s, j, options)
        ELSE IF a.star
        THEN \/ MatchFrom(atoms, n + 1, s, j, options)
             \/ (j < Len(s) /\ AtomTakes(a, s[j + 1], options)
                 /\ MatchFrom(atoms, n, s, j + 1, options))
        ELSE j < Len(s) /\ AtomTakes(a, s[j + 1], options)
             /\ MatchFrom(atoms, n + 1, s, j + 1, options)

\* { field: { $regex, $options } }: the expression matches somewhere in the string
regexMatches(q, s) == \E j \in 0..Len(s) : MatchFrom(Atoms(q.regex), 1, s, j, q.options)

PatternSymbols == {"t", "%", "."}

TextSymbols == {"t", "T", "x", ".", NL}

LikeExamples ==
    { [pattern |-> <<"t", "e", "%", "s", "t">>, text |-> t] :
        t \in { <<"t", "e", "s", "t">>, <<"t", "e", "X", "X", "X", "s", "t">>,
                <<"X", "t", "e", "s", "t">> } }

LikeInputs ==
    LikeExamples \cup
    [pattern : Seqs(PatternSymbols, MaxPattern) \ {<<>>}, text : Seqs(TextSymbols, MaxText)]

InitLike ==
    /\ \E in \in LikeInputs :
          qry = [phase |-> "like", pattern |-> in.pattern, text |-> in.text,
                 compiled |-> <<>>, matched |-> FALSE]
    /\ NoOtherCall

\* translateQuery on { field: { $like: pattern } }
TranslateLike ==
    /\ qry.phase = "like"
    /\ qry' = [qry EXCEPT !.phase = "regex", !.compiled = <<translateLikeQuery(qry.pattern)>>]
    /\ UNCHANGED queryVars

\* the database evaluates the compiled condition on a field value
MatchLike ==
    /\ qry.phase = "regex"
    /\ qry' = [qry EXCEPT !.phase = "matched",
                          !.matched = regexMatches(qry.compiled[1], qry.text)]
    /\ UNCHANGED queryVars

NextLike == TranslateLike \/ MatchLike

SpecLike == InitLike /\ [][NextLike]_vars

\* s starts with the literal p, letter case apart
StartsWithI(s, p) ==
    Len(p) <= Len(s) /\ \A n \in 1..Len(p) : Lower(s[n]) = Lower(p[n])

\* s consists of the literal segments in order, runs of any characters between them,
\* the first segment at its start and the last at its end
RECURSIVE Consists(_, _)
Consists(segs, s) ==
    IF Len(segs) = 1
    THEN Len(s) >= Len(segs[1])
         /\ StartsWithI(SubSeq(s, Len(s) - Len(segs[1]) + 1, Len(s)), segs[1])
    ELSE \E j \in 0..Len(s) :
            StartsWithI(SubSeq(s, j + 1, Len(s)), segs[1])
            /\ Consists(Tail(segs), SubSeq(s, j + Len(segs[1]) + 1, Len(s)))

LikeMeans(pattern, s) ==
    LET segs == split(pattern, "%")
    IN  IF Len(segs) = 1 THEN Len(s) = Len(segs[1]) /\ StartsWithI(s, segs[1])
        ELSE StartsWithI(s, segs[1])
             /\ Consists(Tail(segs), SubSeq(s, Len(segs[1]) + 1, Len(s)))

\* C26: the compiled $like pattern matches a string exactly when the string consists
\* of the literal segments of the pattern in order, letter case apart, the first as
\* a prefix and the last as a suffix, any run of characters standing for each %
C26_LikeMatches ==
    qry.phase = "matched" => (qry.matched <=> LikeMeans(qry.pattern, qry.text))

(***************************************************************************)
(* findAll: the choice between the pipeline and the plain find             *)
(***************************************************************************)
KeyJoined == <<"$lookup", ".", "a", ".", "name">>

\* key.includes('$lookup.')
includesLookup(key) == \E n \in 1..(Len(key) - 1) : key[n] = "$lookup" /\ key[n + 1] = "."

isLookupQuery(query) == \E key \in DOMAIN query : includesLookup(key)

\* a sort is <<>> when undefined, else <<the object>>
isLookupSort(sort) == sort # <<>> /\ \E key \in DOMAIN sort[1] : includesLookup(key)

isEnumSort(h, clazz, options) ==
    /\ options # <<>>
    /\ options[1].sort # <<>>
    /\ \E key \in DOMAIN options[1].sort[1] :
          findAttribute(h, clazz, key) # <<>> /\ AttributeType[key] = "EnumOf"

\* Object.values(options.sort).some((it) => typeof it === 'object')
isRulesSort(options) ==
    /\ options # <<>>
    /\ options[1].sort # <<>>
    /\ \E key \in DOMAIN options[1].sort[1] : options[1].sort[1][key] = "rules"

\* a choice of the path by what the query and the sort touch
usesPipeline_ByJoinedField(h, clazz, query, options) ==
    \/ isLookupQuery(query)
    \/ (options # <<>> /\ isLookupSort(options[1].sort))
    \/ isEnumSort(h, clazz, options)
    \/ isRulesSort(options)

\* the condition under which findAll returns findWithPipeline(...)
usesPipeline(h, clazz, query, options) ==
    /\ options # <<>>
    /\ (options[1].lookup \/ isEnumSort(h, clazz, options) \/ isRulesSort(options))

SortKeys == {<<"name">>, <<"status">>, KeyJoined}

Sorts ==
    {<<>>} \cup
    { <<[k \in keys |-> v[k]]>> :
        keys \in SUBSET SortKeys, v \in [SortKeys -> {"ascending", "rules"}] }

FindOptions == {<<>>} \cup { <<[lookup |-> l, sort |-> s]>> : l \in BOOLEAN, s \in Sorts }

PathQueries ==
    { [k \in keys |-> Str("x")] : keys \in SUBSET {<<"name">>, KeyJoined} }

InitPath ==
    /\ qry \in [phase : {"call"}, h : {"deep"}, clazz : {"A", "C"}, query : PathQueries,
                options : FindOptions, path : {"none"}, slowPipeline : {FALSE}]
    /\ NoOtherCall

\* findAll: the pipeline when a lookup, an enum sort or a rules sort is asked for
ChoosePath ==
    /\ qry.phase = "call"
    /\ qry' = [qry EXCEPT !.phase = IF usesPipeline(qry.h, qry.clazz, qry.query, qry.options)
                                    THEN "pipeline" ELSE "done",
                          !.path = IF usesPipeline(qry.h, qry.clazz, qry.query, qry.options)
                                   THEN "pipeline" ELSE "fast"]
    /\ UNCHANGED queryVars

\* findWithPipeline: the lookup steps go before the match of the joined fields
\* when the query or the sort names a joined field
BuildPipeline ==
    /\ qry.phase = "pipeline"
    /\ qry' = [qry EXCEPT !.phase = "done",
                          !.slowPipeline = isLookupQuery(qry.query)
                                           \/ isLookupSort(qry.options[1].sort)]
    /\ UNCHANGED queryVars

NextPath == ChoosePath \/ BuildPipeline

SpecPath == InitPath /\ [][NextPath]_vars

\* C28 as stated: the pipeline path is taken exactly when the query or the sort
\* touches a joined field, the sort has a rules field, or a sort field is enum-typed
C28_PipelineIffJoinedField ==
    qry.path # "none" =>
        (qry.path = "pipeline" <=>
            usesPipeline_ByJoinedField(qry.h, qry.clazz, qry.query, qry.options))

\* C28, amended: the pipeline path is taken exactly when options are given and they
\* ask for a lookup, or sort by an enum-typed field of the class, or sort by a
\* rules field; whether the query or the sort names a joined field decides, on the
\* pipeline path, that the lookup steps precede the match of the joined fields
C28_PipelineIffLookupOption ==
    /\ qry.path # "none" =>
          (qry.path = "pipeline" <=>
              /\ qry.options # <<>>
              /\ \/ qry.options[1].lookup
                 \/ qry.options[1].sort # <<>>
                    /\ \E key \in DOMAIN qry.options[1].sort[1] :
                          \/ qry.options[1].sort[1][key] = "rules"
                          \/ key = <<"status">> /\ qry.clazz = "A")
    /\ qry.slowPipeline =>
          \E key \in DOMAIN qry.query \cup
                     (IF qry.options[1].sort = <<>> THEN {} ELSE DOMAIN qry.options[1].sort[1]) :
              key = KeyJoined

\* a call with a lookup option whose query and sort touch no joined field has taken
\* the pipeline path
C28_Witness ==
    /\ qry.phase = "done"
    /\ qry.path = "pipeline"
    /\ qry.options[1].lookup
    /\ qry.options[1].sort = <<>>
    /\ DOMAIN qry.query = {<<"name">>}
    /\ ~qry.slowPipeline

(***************************************************************************)
(* findAll: the rows and the total on its three paths                      *)
(***************************************************************************)
MaxLimit == 2   \* the largest options.limit of a call

KeyId == <<"_id">>

IdOrder == <<"a1", "a2", "b1", "c1">>

\* the documents of a collection in its natural order
natural(docs) ==
    LET all == [n \in 1..Len(IdOrder) |-> CHOOSE d \in ClassDocs : d.id = IdOrder[n]]
    IN  SelectSeq(all, LAMBDA d : d \in docs)

\* cursor.sort({ name: 1 })
sortByName(rows) ==
    SelectSeq(rows, LAMBDA d : d.name = "x") \o SelectSeq(rows, LAMBDA d : d.name # "x")

\* cursor.limit(n) and { $limit: n }
limitTo(rows, n) == SubSeq(rows, 1, IF n < Len(rows) THEN n ELSE Len(rows))

\* coll.countDocuments(filter) and { $count: 'total' }
countDocuments(docs, filter) == Cardinality({d \in docs : MatchesFilter(d, filter)})

\* the rows of a find or an aggregate: match, sort, limit
findRows(docs, filter, sorted, limit) ==
    LET m == SelectSeq(natural(docs), LAMBDA d : MatchesFilter(d, filter))
        s == IF sorted THEN sortByName(m) ELSE m
    IN  IF limit = <<>> THEN s ELSE limitTo(s, limit[1])

\* cursor.project(projection) and { $project: projection }
project(rows, projection) ==
    IF projection THEN [n \in 1..Len(rows) |-> [id |-> rows[n].id, name |-> rows[n].name]]
    ELSE rows

hasStringId(query) == KeyId \in DOMAIN query /\ query[KeyId].type = "string"

\* a cursor scan whose total is the length of what it returned
cursorTotal_ResultLength(docs, fQuery, options, res) ==
    IF options # <<>> /\ options[1].total THEN Len(res) ELSE -1

\* the total of the cursor scan: countDocuments when a limit is set, else the
\* length of the result
cursorTotal(docs, fQuery, options, res) ==
    LET t1 == IF options # <<>> /\ options[1].limit # <<>> /\ options[1].total
              THEN countDocuments(docs, fQuery) ELSE -1
    IN  IF options # <<>> /\ options[1].total /\ options[1].limit = <<>>
        THEN Len(res) ELSE t1

TotalQueries ==
    { i @@ n : i \in {<<>>, KeyId :> Str("a1")}, n \in {<<>>, <<"name">> :> Str("x")} }

TotalOptions ==
    {<<>>} \cup
    { <<[total |-> t, limit |-> l, sorted |-> s, projection |-> p, lookup |-> k]>> :
        t \in BOOLEAN, l \in {<<>>} \cup {<<n>> : n \in 1..MaxLimit},
        s \in BOOLEAN, p \in BOOLEAN, k \in BOOLEAN }

InitTotal ==
    /\ qry \in [phase : {"call"}, docs : SUBSET ClassDocs, query : TotalQueries,
                options : TotalOptions, path : {"none"}, rows : {<<>>}, total : {0}]
    /\ NoOtherCall

TotalFilter == translateQuery("deep", "A", qry.query, [skipClass |-> FALSE, skipSpace |-> FALSE]).base

TotalPipeline == qry.options # <<>> /\ qry.options[1].lookup

TotalFindOne == (qry.options # <<>> /\ qry.options[1].limit = <<1>>) \/ hasStringId(qry.query)

\* findAll through findWithPipeline: the total is counted by the pipeline as it
\* was before sort and limit
FindAllPipeline ==
    /\ qry.phase = "call"
    /\ TotalPipeline
    /\ LET o == qry.options[1]
           limit == IF o.limit # <<>> \/ hasStringId(qry.query)
                    THEN <<IF o.limit # <<>> THEN o.limit[1] ELSE 1>> ELSE <<>>
       IN  qry' = [qry EXCEPT !.phase = "done", !.path = "pipeline",
                              !.rows = project(findRows(qry.docs, TotalFilter, o.sorted, limit),
                                               o.projection),
                              !.total = IF o.total THEN countDocuments(qry.docs, TotalFilter)
                                        ELSE -1]
    /\ UNCHANGED queryVars

\* findAll with limit 1 or a string _id: findOne, and countDocuments on request
FindAllOne ==
    /\ qry.phase = "call"
    /\ ~TotalPipeline
    /\ TotalFindOne
    /\ LET sorted == qry.options # <<>> /\ qry.options[1].sorted
           byId == findRows(qry.docs, KeyId :> TotalFilter[KeyId], sorted, <<1>>)
           doc == IF hasStringId(TotalFilter)
                  THEN SelectSeq(byId, LAMBDA d : MatchesFilter(d, TotalFilter))
                  ELSE findRows(qry.docs, TotalFilter, sorted, <<1>>)
       IN  qry' = [qry EXCEPT !.phase = "done", !.path = "find-one",
                              !.rows = project(doc, qry.options # <<>> /\ qry.options[1].projection),
                              !.total = IF qry.options # <<>> /\ qry.options[1].total
                                        THEN countDocuments(qry.docs, TotalFilter) ELSE -1]
    /\ UNCHANGED queryVars

\* findAll with a cursor: find, project, sort, limit, toArray
FindAllCursor ==
    /\ qry.phase = "call"
    /\ ~TotalPipeline
    /\ ~TotalFindOne
    /\ LET res == findRows(qry.docs, TotalFilter,
                           qry.options # <<>> /\ qry.options[1].sorted,
                           IF qry.options # <<>> THEN qry.options[1].limit ELSE <<>>)
       IN  qry' = [qry EXCEPT !.phase = "done", !.path = "cursor",
                              !.rows = project(res, qry.options # <<>> /\ qry.options[1].projection),
                              !.total = cursorTotal(qry.docs, TotalFilter, qry.options, res)]
    /\ UNCHANGED queryVars

NextTotal == FindAllPipeline \/ FindAllOne \/ FindAllCursor

SpecTotal == InitTotal /\ [][NextTotal]_vars

\* C29: on each path the total is -1 when none was asked for, and otherwise the
\* number of documents of the collection that match the compiled filter, whatever
\* the limit, the sort and the projection
C29_TotalIsMatchCount ==
    qry.phase = "done" =>
        qry.total = IF qry.options # <<>> /\ qry.options[1].total
                    THEN Cardinality({d \in qry.docs : MatchesFilter(d, TotalFilter)})
                    ELSE -1

\* a cursor scan limited to two rows has reported the three documents that match
C29_Witness ==
    /\ qry.phase = "done"
    /\ qry.path = "cursor"
    /\ qry.options # <<>>
    /\ qry.options[1].total
    /\ qry.options[1].projection
    /\ qry.options[1].limit = <<2>>
    /\ Len(qry.rows) = 2
    /\ qry.total = 3

\* ---------------------------------------------------------------------------
\* Concurrent pushBulk calls on one domain (storage.ts 1124-1170)
\* ---------------------------------------------------------------------------

MaxCalls == 3

MaxCallOps == 2

Calls == 1..MaxCalls

\* the operations a call hands to pushBulk, each marked with the call it comes from
CallOps(c, n) == [k \in 1..n |-> [call |-> c, n |-> k]]

\* _pushBulk up to its first await: bulk = Array.from(this.bulkOps.entries()) and
\* this.bulkOps.clear()
_pushBulk(pending) == [bulk |-> pending, bulkOps |-> Empty]

\* for (const [domain, ops] of bulk): entries without operations are skipped
bulkToWrite(b) == {d \in DOMAIN b : b[d] # <<>>}

\* the calls whose pushBulk has begun and has not returned
InProgress(l) == {c \in DOMAIN l.pc : l.pc[c] \in {"waiting", "writing"}}

InitCoalesce ==
    /\ lim = [pc |-> [c \in Calls |-> "idle"], processing |-> {}, issued |-> {},
              bulk |-> [c \in Calls |-> Empty], during |-> [c \in Calls |-> {}]]
    /\ bulkOps = Empty
    /\ writes = <<>>
    /\ db = Empty
    /\ db0 = Empty
    /\ txes = <<>>
    /\ pc = "done"
    /\ idx = 1
    /\ bulk = EmptyBulk
    /\ applied = <<>>
    /\ result = <<>>
    /\ rawIdx = 1
    /\ moveIn = NoMove
    /\ iter = NoIter
    /\ read = NoRead
    /\ patch = NoPatch
    /\ qry = NoQuery

coalesceVars == <<db, db0, txes, pc, idx, bulk, applied, result, rawIdx, moveIn, iter,
                  read, patch, qry>>

\* pushBulk(ctx, domain, ops) up to the first await of _pushBulk: the operations
\* are put in this.bulkOps, the entries are copied and the map is cleared
PushBulkCall(c) ==
    /\ lim.pc[c] = "idle"
    /\ \E n \in 0..MaxCallOps :
         LET d == _pushBulk(pushBulk(bulkOps, Domain, CallOps(c, n))) IN
         /\ bulkOps' = d.bulkOps
         /\ lim' = [lim EXCEPT !.pc[c] = IF bulkToWrite(d.bulk) = {} THEN "done"
                                                                      ELSE "waiting",
                               !.bulk[c] = d.bulk,
                               !.during[c] = InProgress(lim)]
    /\ UNCHANGED <<writes, coalesceVars>>

\* rateLimit.exec starts coll.bulkWrite(ops, ...) with the operations of the copy
BulkWriteStart(c) ==
    /\ lim.pc[c] = "waiting"
    /\ execCanStart(lim)
    /\ lim' = [execStart(lim, c) EXCEPT !.pc[c] = "writing"]
    /\ writes' = Append(writes, lim.bulk[c][Domain])
    /\ UNCHANGED <<bulkOps, coalesceVars>>

\* the promise of coll.bulkWrite settles and pushBulk returns
BulkWriteEnd(c) ==
    /\ lim.pc[c] = "writing"
    /\ lim' = [execEnd(lim, c) EXCEPT !.pc[c] = "done"]
    /\ UNCHANGED <<bulkOps, writes, coalesceVars>>

NextCoalesce == \E c \in Calls : PushBulkCall(c) \/ BulkWriteStart(c) \/ BulkWriteEnd(c)

SpecCoalesce == InitCoalesce /\ [][NextCoalesce]_vars

\* the calls whose operations a batched write carries
CallsOf(w) == {w[k].call : k \in 1..Len(w)}

\* every batched write carries the operations of one call, and this.bulkOps is
\* empty whenever a call of pushBulk begins
OneCallPerWrite ==
    /\ bulkOps = Empty
    /\ \A i \in 1..Len(writes) : Cardinality(CallsOf(writes[i])) = 1

\* C30: when a call of pushBulk on a domain begins while another call on the same
\* domain is in progress, one batched write carries the operations of both calls
C30_CoalescesAcrossCalls ==
    \A c1, c2 \in DOMAIN lim.pc :
        ( /\ c1 # c2
          /\ c1 \in lim.during[c2]
          /\ bulkToWrite(lim.bulk[c1]) # {}
          /\ bulkToWrite(lim.bulk[c2]) # {}
          /\ lim.pc[c1] \in {"writing", "done"}
          /\ lim.pc[c2] \in {"writing", "done"} )
        => \E i \in 1..Len(writes) : {c1, c2} \subseteq CallsOf(writes[i])

(***************************************************************************)
(* Further properties of the translation (txMixin, txUpdateDoc,            *)
(* txCollectionCUD).                                                       *)
(***************************************************************************)
IsMixinMove(tx) ==
    /\ tx._class = "TxMixin"
    /\ isOperator(tx.attributes)
    /\ FirstKey(tx.attributes) = "$move"

\* the pull and the push a $move of a mixin field is to be translated into
MixinPull(tx) ==
    LET keyval == tx.attributes["$move"]
        f == FirstKey(keyval)
    IN  UpdateOne("_id" :> tx.objectId, "$pull" :> ((tx.mixin \o "." \o f) :> keyval[f]["$value"]))

MixinPush(tx) ==
    LET keyval == tx.attributes["$move"]
        f == FirstKey(keyval)
    IN  UpdateOne("_id" :> tx.objectId,
                  "$set" :> modifyOp(tx)
                  @@ "$push" :> ((tx.mixin \o "." \o f) :>
                                    ("$each" :> <<keyval[f]["$value"]>>
                                     @@ "$position" :> keyval[f]["$position"])))

\* C31: a mixin-apply whose attributes are a $move is translated without error into
\* two bulk operations on the target id, the pull of the value from M.F and then the
\* update that sets the provenance and pushes the value into M.F at the position
C31_MixinMoveTranslated ==
    \A n \in 1..Len(txes) :
        IsMixinMove(txes[n]) =>
            /\ ~(pc = "rejected" /\ idx = n)
            /\ n < idx =>
                  \E k \in 1..(Len(bulk.bulkOperations) - 1) :
                      /\ bulk.bulkOperations[k] = MixinPull(txes[n])
                      /\ bulk.bulkOperations[k + 1] = MixinPush(txes[n])

\* transactions whose payload is a native operator, some with a $set of their own
SetOf(k, v) == "$set" :> (k :> v)

NativeUniverse ==
    { TxUpdate("d1", SetOf("a", 2), FALSE),
      TxUpdate("d1", SetOf("a", 2), TRUE),
      TxUpdate("d1", SetOf("a", 2) @@ PushOf("arr", 3), FALSE),
      TxUpdate("d1", PushOf("arr", 3), FALSE),
      TxUpdate("d2", PushOf("arr", 3), TRUE),
      TxMixinOf("d1", SetOf("a", 1)),
      TxMixinOf("d1", PushOf("arr", 3)) }

InitNative ==
    /\ db0 \in InitDbs
    /\ db = db0
    /\ \E n \in 1..MaxBatch : \E s \in [1..n -> NativeUniverse] :
            txes = [j \in 1..n |-> Stamp(s[j], j)]
    /\ pc = "translate"
    /\ idx = 1
    /\ bulk = EmptyBulk
    /\ bulkOps = Empty
    /\ writes = <<>>
    /\ applied = <<>>
    /\ result = <<>>
    /\ rawIdx = 1
    /\ moveIn = NoMove
    /\ iter = NoIter
    /\ read = NoRead
    /\ lim = NoLim
    /\ patch = NoPatch
    /\ qry = NoQuery

SpecNative == InitNative /\ [][Next]_vars

\* the updates the bulk holds outside the update map: those of the bulk operations
\* and those of the raw deferred calls
EmittedUpdates(b) ==
    {b.bulkOperations[n].updateOne.update :
        n \in {m \in 1..Len(b.bulkOperations) : "updateOne" \in DOMAIN b.bulkOperations[m]}}
    \cup {b.raw[n].update : n \in 1..Len(b.raw)}

\* the payload of a native-operator transaction as it is to be written: the
\* operations of an update, the namespaced attributes of a mixin-apply
NativePayload(tx) ==
    IF tx._class = "TxMixin" THEN translateMixinAttrs(tx.mixin, tx.attributes)
    ELSE tx.operations

IsNative(tx) ==
    \/ /\ tx._class = "TxUpdateDoc" /\ isOperator(tx.operations)
       /\ FirstKey(tx.operations) \notin {"$move", "$update"}
    \/ /\ tx._class = "TxMixin" /\ isOperator(tx.attributes)
       /\ FirstKey(tx.attributes) # "$move"

\* C32: the update emitted for a native-operator transaction keeps every key of the
\* $set clause the transaction carries, with its value, next to modifiedBy and
\* modifiedOn (and the null digest for an update), and passes every other operator
\* of the payload through unchanged
C32_SetClauseMerged ==
    \A n \in 1..(idx - 1) :
        IsNative(txes[n]) =>
            \E u \in EmittedUpdates(bulk) :
                LET p == NativePayload(txes[n]) IN
                /\ "$set" \in DOMAIN u
                /\ "modifiedOn" \in DOMAIN u["$set"] /\ u["$set"]["modifiedOn"] = n
                /\ "modifiedBy" \in DOMAIN u["$set"]
                /\ txes[n]._class = "TxUpdateDoc" =>
                      (HASH \in DOMAIN u["$set"] /\ u["$set"][HASH] = NULL)
                /\ \A o \in (DOMAIN p) \ {"$set"} : o \in DOMAIN u /\ u[o] = p[o]
                /\ "$set" \in DOMAIN p =>
                      \A k \in DOMAIN p["$set"] :
                          k \in DOMAIN u["$set"] /\ u["$set"][k] = p["$set"][k]

\* the same without the last conjunct: what the emitted update does keep
NativeKeepsOthers ==
    \A n \in 1..(idx - 1) :
        IsNative(txes[n]) =>
            \E u \in EmittedUpdates(bulk) :
                LET p == NativePayload(txes[n]) IN
                /\ "$set" \in DOMAIN u
                /\ "modifiedOn" \in DOMAIN u["$set"] /\ u["$set"]["modifiedOn"] = n
                /\ "modifiedBy" \in DOMAIN u["$set"]
                /\ txes[n]._class = "TxUpdateDoc" =>
                      (HASH \in DOMAIN u["$set"] /\ u["$set"][HASH] = NULL)
                /\ \A o \in (DOMAIN p) \ {"$set"} : o \in DOMAIN u /\ u[o] = p[o]

(***************************************************************************)
(* fillCustomSort: the rank field of a sort by rules                       *)
(***************************************************************************)
MaxCases == 2   \* cases of a sorting rule

Undefined == <<"undefined">>

\* a selector query: a plain value, or an object with $in, $nin or $ne; a key the
\* object does not have reads as undefined
ValueQuery(v) == [type |-> "value", v |-> v, in |-> Undefined, nin |-> Undefined, ne |-> Undefined]

ObjectQuery(in, nin, ne) == [type |-> "object", v |-> "", in |-> in, nin |-> nin, ne |-> ne]

\* rules.cases.map((selector) => ...): the branch of one case
sortBranch(key, selector) ==
    LET q == selector.query IN
    IF q.type = "object" /\ q.in # Undefined
    THEN [op |-> "$in", form |-> "object", field |-> key, operand |-> q.in, then |-> selector.index]
    ELSE IF q.type = "object" /\ q.nin # Undefined
    THEN [op |-> "$nin", form |-> "object", field |-> key, operand |-> q.in, then |-> selector.index]
    ELSE IF q.type = "object" /\ q.ne # Undefined
    THEN [op |-> "$ne", form |-> "array", field |-> key, operand |-> q.ne, then |-> selector.index]
    ELSE [op |-> "$eq", form |-> "array", field |-> key, operand |-> q, then |-> selector.index]

\* the $switch fillCustomSort pushes: the branches, and rules.default ?? branches.length
\* (rules.default is <<>> when the caller gives none)
fillCustomSort(rules, key) ==
    LET branches == [n \in 1..Len(rules.cases) |-> sortBranch(key, rules.cases[n])]
    IN  [branches |-> branches,
         default |-> IF rules.default = <<>> THEN Len(branches) ELSE rules.default[1]]

SortQueries ==
    {ValueQuery("a")}
    \cup {ObjectQuery(in, nin, ne) :
            in \in {Undefined, <<"a">>}, nin \in {Undefined, <<"b">>}, ne \in {Undefined, <<"c">>}}

Selectors == [query : SortQueries, index : 0..1]

InitSort ==
    /\ qry \in [phase : {"rules"}, key : {"status"},
                rules : [cases : Seqs(Selectors, MaxCases), default : {<<>>, <<0>>, <<5>>}],
                switch : {<<>>}]
    /\ NoOtherCall

FillCustomSort ==
    /\ qry.phase = "rules"
    /\ qry' = [qry EXCEPT !.phase = "filled", !.switch = <<fillCustomSort(qry.rules, qry.key)>>]
    /\ UNCHANGED queryVars

NextSort == FillCustomSort

SpecSort == InitSort /\ [][NextSort]_vars

\* the operand a case gives for its selector
OwnOperand(q) ==
    IF q.type = "object" /\ q.in # Undefined THEN q.in
    ELSE IF q.type = "object" /\ q.nin # Undefined THEN q.nin
    ELSE IF q.type = "object" /\ q.ne # Undefined THEN q.ne
    ELSE q

OwnOperator(q) ==
    IF q.type = "object" /\ q.in # Undefined THEN "$in"
    ELSE IF q.type = "object" /\ q.nin # Undefined THEN "$nin"
    ELSE IF q.type = "object" /\ q.ne # Undefined THEN "$ne"
    ELSE "$eq"

\* C33: the branch of every case tests the sort field against the operand of the
\* case's own selector ($in list, $nin list, $ne value, else the value itself) and
\* yields the rank of the case; the default rank is the one the caller gives, or the
\* number of cases
C33_BranchTestsOwnOperand ==
    qry.phase = "filled" =>
        LET s == qry.switch[1] IN
        /\ Len(s.branches) = Len(qry.rules.cases)
        /\ \A n \in 1..Len(s.branches) :
              /\ s.branches[n].field = qry.key
              /\ s.branches[n].op = OwnOperator(qry.rules.cases[n].query)
              /\ s.branches[n].operand = OwnOperand(qry.rules.cases[n].query)
              /\ s.branches[n].then = qry.rules.cases[n].index
        /\ s.default = IF qry.rules.default = <<>> THEN Len(qry.rules.cases)
                       ELSE qry.rules.default[1]

(***************************************************************************)
(* txCollectionCUD: collection-attach transactions                         *)
(***************************************************************************)
AttachUniverse ==
    { TxCollection("d1", TxCreate("d2", "a" :> 1)),
      TxCollection("d1", TxCreate("d2", "a" :> 1 @@ "attachedTo" :> "x" @@ "collection" :> "old")),
      TxCollection("d1", TxUpdate("d2", "a" :> 3, FALSE)),
      TxCollection("d1", TxUpdate("d1", "a" :> 3, TRUE)),
      TxCollection("d1", TxUpdate("d1", PushOf("arr", 3), TRUE)),
      TxCollection("d1", TxRemove("d2")),
      TxCollection("d1", TxMixinOf("d2", "a" :> 1)),
      TxCollection("d1", TxMixinOf("d1", MoveOf("arr", 1, 0))),
      TxCreate("d2", "a" :> 1),
      TxUpdate("d1", "a" :> 2, FALSE) }

InitAttach ==
    /\ db0 \in InitDbs
    /\ db = db0
    /\ \E n \in 1..MaxBatch : \E s \in [1..n -> AttachUniverse] :
            txes = [j \in 1..n |-> Stamp(s[j], j)]
    /\ pc = "translate"
    /\ idx = 1
    /\ bulk = EmptyBulk
    /\ bulkOps = Empty
    /\ writes = <<>>
    /\ applied = <<>>
    /\ result = <<>>
    /\ rawIdx = 1
    /\ moveIn = NoMove
    /\ iter = NoIter
    /\ read = NoRead
    /\ lim = NoLim
    /\ patch = NoPatch
    /\ qry = NoQuery

SpecAttach == InitAttach /\ [][Next]_vars

AttachFields == {"attachedTo", "attachedToClass", "collection"}

\* the plain transaction a collection-attach stands for: for a wrapped create the
\* create with the parent id, the parent class and the collection name written over
\* its attributes, otherwise the wrapped transaction
PlainOf(tx) ==
    IF tx.tx._class = "TxCreateDoc"
    THEN [_class |-> "TxCreateDoc", objectId |-> tx.tx.objectId,
          modifiedBy |-> tx.tx.modifiedBy, modifiedOn |-> tx.tx.modifiedOn,
          attributes |-> [k \in (DOMAIN tx.tx.attributes) \cup AttachFields |->
                             IF k = "attachedTo" THEN tx.objectId
                             ELSE IF k = "attachedToClass" THEN tx.objectClass
                             ELSE IF k = "collection" THEN tx.collection
                             ELSE tx.tx.attributes[k]]]
    ELSE tx.tx

\* C34: translating a collection-attach changes the Operation Bulk exactly as
\* translating the plain transaction it stands for would, and it is rejected exactly
\* when that one would be
C34_AttachIsPlain ==
    [][(pc = "translate" /\ idx <= Len(txes) /\ txes[idx]._class = "TxCollectionCUD"
        /\ <<pc, idx>>' # <<pc, idx>>) =>
            /\ pc' = "rejected" <=> updateBulkThrows(PlainOf(txes[idx]))
            /\ pc' # "rejected" => bulk' = updateBulk(bulk, PlainOf(txes[idx]))]_vars

\* a collection-attach whose wrapped create carried parent fields of its own has
\* been translated, and the inserted document names the parent of the attach
C34_Witness ==
    /\ idx > 1
    /\ txes[1]._class = "TxCollectionCUD"
    /\ txes[1].tx._class = "TxCreateDoc"
    /\ "attachedTo" \in DOMAIN txes[1].tx.attributes
    /\ Len(bulk.add) > 0
    /\ bulk.add[1]["attachedTo"] = txes[1].objectId
    /\ bulk.add[1]["collection"] = txes[1].collection

(***************************************************************************)
(* Flat mixin-apply: the namespace of the mixin                            *)
(***************************************************************************)
\* the attribute names a mixin namespace of the model can hold
MixinAttrNames == {"a", "arr", "__mixin"}

\* the namespace object of a mixin in a stored document or in an update-map entry:
\* the attributes written under mixin.k
Namespace(d, mixin) ==
    [k \in {j \in MixinAttrNames : (mixin \o "." \o j) \in DOMAIN d} |-> d[mixin \o "." \o k]]

\* the translated flat mixin-applies of the batch on the document id
FlatMixinOn(id) ==
    {n \in 1..(idx - 1) : "objectId" \in DOMAIN txes[n] /\ IsFlatMixin(Unwrapped(txes[n]))
                          /\ TargetId(txes[n]) = id}

Removes(id) ==
    {n \in 1..Len(txes) : "objectId" \in DOMAIN txes[n] /\ Unwrapped(txes[n])._class = "TxRemoveDoc"
                          /\ TargetId(txes[n]) = id}

\* C35: a flat mixin-apply for M writes every attribute k of its patch under M.k of
\* the update-map entry of its target, with the provenance at top level, and an
\* empty patch writes a sentinel under M; once the write is applied to a stored
\* document its M namespace is not empty
C35_MixinNamespace ==
    \A id \in {"d1", "d2"} : \A n \in FlatMixinOn(id) :
        LET tx == Unwrapped(txes[n]) IN
        /\ MapHas(bulk.update, id)
        /\ LET upd == MapGet(bulk.update, id) IN
            /\ \A k \in DOMAIN tx.attributes :
                  /\ (tx.mixin \o "." \o k) \in DOMAIN upd
                  /\ n = Last(FlatMixinOn(id)) => upd[tx.mixin \o "." \o k] = tx.attributes[k]
            /\ {"modifiedBy", "modifiedOn"} \subseteq DOMAIN upd
            /\ DOMAIN Namespace(upd, tx.mixin) # {}
            /\ (DOMAIN tx.attributes = {} /\ FlatMixinOn(id) = {n}) =>
                  DOMAIN Namespace(upd, tx.mixin) = {"__mixin"}
        /\ (pc = "done" /\ AllApplied /\ id \in DOMAIN db0 /\ Removes(id) = {}) =>
              DOMAIN Namespace(db[id], tx.mixin) # {}

\* a mixin-apply with an empty patch has been written: the stored document has the
\* namespace of the mixin with the sentinel in it
C35_Witness ==
    /\ pc = "done"
    /\ AllApplied
    /\ Len(txes) = 1
    /\ IsFlatMixin(txes[1])
    /\ DOMAIN txes[1].attributes = {}
    /\ DOMAIN Namespace(db0["d1"], Mixin) = {}
    /\ DOMAIN Namespace(db["d1"], Mixin) = {"__mixin"}

(***************************************************************************)
(* The raw deferred calls of a call of tx                                  *)
(***************************************************************************)
IsRawTx(tx) ==
    /\ "objectId" \in DOMAIN tx
    /\ Unwrapped(tx)._class = "TxUpdateDoc"
    /\ IsNative(Unwrapped(tx))
    /\ Unwrapped(tx).retrieve

\* the transactions of the batch that are translated into raw deferred calls, in
\* the order of the batch
RawTxs == SelectSeq([n \in 1..Len(txes) |-> n], LAMBDA n : IsRawTx(txes[n]))

IsRawEntry(e) == "object" \in DOMAIN e

\* C36: the raw deferred calls start only after the batched write is dispatched and
\* the fetch-after-flush has completed; they run one at a time in the order of their
\* transactions, and each adds one entry, in that order, at the end of the result
C36_RawAfterFlushInOrder ==
    /\ rawIdx > 1 =>
          /\ pc \in {"raw", "done"}
          /\ bulkToOps(bulk) # <<>> => Len(writes) = 1
    /\ pc \in {"raw", "done"} =>
          LET raws == SelectSeq(result, IsRawEntry)
              finds == SelectSeq(result, LAMBDA e : ~IsRawEntry(e))
          IN  /\ result = finds \o raws
              /\ Len(raws) = rawIdx - 1
              /\ Len(raws) <= Len(RawTxs)
              /\ \A k \in 1..Len(raws) :
                    raws[k].object # <<>> =>
                        /\ raws[k].object[1]["_id"] = Unwrapped(txes[RawTxs[k]]).objectId
                        /\ raws[k].object[1]["modifiedOn"] = txes[RawTxs[k]].modifiedOn
    /\ pc = "done" => rawIdx - 1 = Len(RawTxs)

\* the two raw deferred calls of a batch, on different documents, have run and the
\* result holds their two entries in the order of the batch
C36_Witness ==
    /\ pc = "done"
    /\ Len(RawTxs) = 2
    /\ txes[1].objectId # txes[2].objectId
    /\ Len(result) = 2
    /\ result[1].object # <<>>
    /\ result[2].object # <<>>

(***************************************************************************)
(* A batched write that fails during the flush of a call of tx             *)
(***************************************************************************)
MaxFlushCalls == 2

FlushCalls == 1..MaxFlushCalls

OtherDomain == "other"

\* the domains of a call in the order of groupByArray, each domain once
DomainLists ==
    {<<Domain>>, <<OtherDomain>>, <<Domain, OtherDomain>>, <<OtherDomain, Domain>>}

InitFlush ==
    /\ \E ds \in [FlushCalls -> DomainLists] :
          lim = [pc |-> [c \in FlushCalls |-> "loop"], processing |-> {}, issued |-> {},
                 domains |-> ds,
                 at |-> [c \in FlushCalls |-> 1],
                 bulk |-> [c \in FlushCalls |-> Empty],
                 error |-> [c \in FlushCalls |-> <<>>],
                 failed |-> {}]
    /\ bulkOps = Empty
    /\ writes = <<>>
    /\ db = Empty
    /\ db0 = Empty
    /\ txes = <<>>
    /\ pc = "done"
    /\ idx = 1
    /\ bulk = EmptyBulk
    /\ applied = <<>>
    /\ result = <<>>
    /\ rawIdx = 1
    /\ moveIn = NoMove
    /\ iter = NoIter
    /\ read = NoRead
    /\ patch = NoPatch
    /\ qry = NoQuery

\* for (const [domain, txs] of byDomain) ... await this.pushBulk(ctx, domain, ops):
\* the operations of the domain go into this.bulkOps and _pushBulk takes the entries
\* and clears the map before its first await
FlushDomain(c) ==
    /\ lim.pc[c] = "loop"
    /\ LET d == _pushBulk(pushBulk(bulkOps, lim.domains[c][lim.at[c]], CallOps(c, 1))) IN
       /\ bulkOps' = d.bulkOps
       /\ lim' = [lim EXCEPT !.pc[c] = "waiting", !.bulk[c] = d.bulk]
    /\ UNCHANGED <<writes, coalesceVars>>

\* for (const [domain, ops] of bulk): rateLimit.exec starts coll.bulkWrite(ops, ...)
FlushWriteStart(c) ==
    /\ lim.pc[c] = "waiting"
    /\ execCanStart(lim)
    /\ \E d \in bulkToWrite(lim.bulk[c]) :
          /\ writes' = Append(writes, [call |-> c, domain |-> d, ops |-> lim.bulk[c][d]])
          /\ lim' = [execStart(lim, c) EXCEPT !.pc[c] = "writing",
                                              !.bulk[c] = [e \in (DOMAIN @) \ {d} |-> @[e]]]
    /\ UNCHANGED <<bulkOps, coalesceVars>>

\* the write of the call that is in progress: the last one it started
WriteOf(c) == CHOOSE i \in 1..Len(writes) :
                  writes[i].call = c /\ \A j \in (i + 1)..Len(writes) : writes[j].call # c

\* coll.bulkWrite resolves: _pushBulk goes on with its entries, pushBulk returns and
\* tx goes on with the next domain
FlushWriteOk(c) ==
    /\ lim.pc[c] = "writing"
    /\ lim' = [execEnd(lim, c) EXCEPT
                  !.pc[c] = IF bulkToWrite(lim.bulk[c]) # {} THEN "waiting"
                            ELSE IF lim.at[c] < Len(lim.domains[c]) THEN "loop" ELSE "done",
                  !.at[c] = IF bulkToWrite(lim.bulk[c]) # {} THEN @ ELSE @ + 1]
    /\ UNCHANGED <<bulkOps, writes, coalesceVars>>

\* a failed write whose operations are put back and whose call goes on
FlushWriteFails_PutBack(c) ==
    /\ lim.pc[c] = "writing"
    /\ lim' = [execEnd(lim, c) EXCEPT
                  !.pc[c] = IF lim.at[c] < Len(lim.domains[c]) THEN "loop" ELSE "done",
                  !.at[c] = @ + 1,
                  !.failed = @ \cup {WriteOf(c)}]
    /\ bulkOps' = pushBulk(bulkOps, writes[WriteOf(c)].domain, writes[WriteOf(c)].ops)
    /\ UNCHANGED <<writes, coalesceVars>>

\* coll.bulkWrite rejects: no catch in _pushBulk, pushBulk or tx, so the call of tx
\* rejects with the error
FlushWriteFails(c) ==
    /\ lim.pc[c] = "writing"
    /\ lim' = [execEnd(lim, c) EXCEPT !.pc[c] = "rejected",
                                      !.error[c] = <<WriteOf(c)>>,
                                      !.failed = @ \cup {WriteOf(c)}]
    /\ UNCHANGED <<bulkOps, writes, coalesceVars>>

NextFlush ==
    \E c \in FlushCalls :
        FlushDomain(c) \/ FlushWriteStart(c) \/ FlushWriteOk(c) \/ FlushWriteFails(c)

SpecFlush == InitFlush /\ [][NextFlush]_vars

WritesOf(c) == {i \in 1..Len(writes) : writes[i].call = c}

\* C37: when the batched write of a domain fails the call rejects with that error,
\* the operations are not put back (this.bulkOps is empty at every suspension
\* point), and the domains the call had not flushed are not dispatched
C37_FailedFlushRejects ==
    /\ bulkOps = Empty
    /\ \A c \in DOMAIN lim.pc :
          /\ (WritesOf(c) \cap lim.failed # {}) =>
                /\ lim.pc[c] = "rejected"
                /\ lim.error[c] = <<WriteOf(c)>>
                /\ WriteOf(c) \in lim.failed
                /\ Cardinality(WritesOf(c)) = lim.at[c]
                /\ \A i \in WritesOf(c) :
                      \E k \in 1..lim.at[c] : writes[i].domain = lim.domains[c][k]
          /\ lim.pc[c] = "rejected" => WritesOf(c) \cap lim.failed # {}

\* the write of the first of two domains of a call has failed while another call
\* is in progress; the second domain of the call has no write
C37_Witness ==
    \E c \in DOMAIN lim.pc :
        /\ lim.pc[c] = "rejected"
        /\ Len(lim.domains[c]) = 2
        /\ lim.at[c] = 1
        /\ \E o \in DOMAIN lim.pc : o # c /\ lim.pc[o] \in {"waiting", "writing"}

(***************************************************************************)
(* MongoTxAdapter.tx: concurrent calls on the transaction log               *)
(***************************************************************************)
MaxTxCalls == 3

MaxCallTxs == 2

TxCalls == 1..MaxTxCalls

\* the transactions a call passes, each marked with its call
CallTxs(c, n) == [k \in 1..n |-> [call |-> c, n |-> k]]

\* a _bulkTx that leaves the transactions it inserts in the shared buffer
_bulkTx_Keep(txBulk) == [txes |-> txBulk, txBulk |-> txBulk]

\* _bulkTx up to its first await: const txes = this.txBulk; this.txBulk = []
_bulkTx(txBulk) == [txes |-> txBulk, txBulk |-> <<>>]

InitTxLog ==
    /\ lim = [pc |-> [c \in TxCalls |-> "idle"], processing |-> {}, issued |-> {},
              txBulk |-> <<>>,
              passed |-> [c \in TxCalls |-> 0],
              txes |-> [c \in TxCalls |-> <<>>],
              result |-> [c \in TxCalls |-> <<"pending">>]]
    /\ bulkOps = Empty
    /\ writes = <<>>
    /\ db = Empty
    /\ db0 = Empty
    /\ txes = <<>>
    /\ pc = "done"
    /\ idx = 1
    /\ bulk = EmptyBulk
    /\ applied = <<>>
    /\ result = <<>>
    /\ rawIdx = 1
    /\ moveIn = NoMove
    /\ iter = NoIter
    /\ read = NoRead
    /\ patch = NoPatch
    /\ qry = NoQuery

\* tx(ctx, ...tx): an empty call returns []; otherwise this.txBulk.push(...tx) and
\* _bulkTx up to its first await
TxLogCall(c) ==
    /\ lim.pc[c] = "idle"
    /\ \E n \in 0..MaxCallTxs :
          IF n = 0
          THEN lim' = [lim EXCEPT !.pc[c] = "done", !.result[c] = <<>>]
          ELSE LET t == _bulkTx(lim.txBulk \o CallTxs(c, n)) IN
               lim' = [lim EXCEPT !.pc[c] = "taken", !.passed[c] = n,
                                  !.txes[c] = t.txes, !.txBulk = t.txBulk]
    /\ UNCHANGED <<bulkOps, writes, coalesceVars>>

\* this.txCollection().insertMany(txes.map((it) => translateDoc(it)), ...)
InsertMany(c) ==
    /\ lim.pc[c] = "taken"
    /\ writes' = Append(writes, [n \in 1..Len(lim.txes[c]) |-> translateDoc(lim.txes[c][n])])
    /\ lim' = [lim EXCEPT !.pc[c] = "inserting"]
    /\ UNCHANGED <<bulkOps, coalesceVars>>

\* insertMany resolves and tx returns []
InsertResolves(c) ==
    /\ lim.pc[c] = "inserting"
    /\ lim' = [lim EXCEPT !.pc[c] = "done", !.result[c] = <<>>]
    /\ UNCHANGED <<bulkOps, writes, coalesceVars>>

\* insertMany rejects and so does tx
InsertRejects(c) ==
    /\ lim.pc[c] = "inserting"
    /\ lim' = [lim EXCEPT !.pc[c] = "rejected"]
    /\ UNCHANGED <<bulkOps, writes, coalesceVars>>

NextTxLog ==
    \E c \in TxCalls : TxLogCall(c) \/ InsertMany(c) \/ InsertResolves(c) \/ InsertRejects(c)

SpecTxLog == InitTxLog /\ [][NextTxLog]_vars

\* the places of the insertMany calls that hold the k-th transaction of the call c
InsertedAt(c, k) ==
    {<<i, j>> \in (1..Len(writes)) \X (1..MaxTxCalls * MaxCallTxs) :
        j <= Len(writes[i]) /\ writes[i][j].call = c /\ writes[i][j].n = k}

\* C38: in every interleaving of calls of tx on the transaction log every
\* transaction of a call is in exactly one insertMany (once the insert is issued,
\* and never twice), txBulk is empty at every suspension point, a call without
\* transactions issues no insert, and every call that returns returns []
C38_EachTxInsertedOnce ==
    /\ lim.txBulk = <<>>
    /\ \A c \in DOMAIN lim.pc :
          /\ \A k \in 1..MaxCallTxs :
                Cardinality(InsertedAt(c, k)) =
                    IF lim.pc[c] \in {"inserting", "done", "rejected"} /\ k <= lim.passed[c]
                    THEN 1 ELSE 0
          /\ lim.pc[c] = "done" => lim.result[c] = <<>>
    /\ Len(writes) = Cardinality({c \in DOMAIN lim.pc :
                                     lim.pc[c] \in {"inserting", "done", "rejected"}
                                     /\ lim.passed[c] > 0})

\* the inserts of two calls are in flight at the same time, one of them with two
\* transactions, and a call without transactions has returned
C38_Witness ==
    /\ Len(writes) = 2
    /\ \E c \in DOMAIN lim.pc : lim.pc[c] = "done" /\ lim.passed[c] = 0
    /\ \E c, o \in DOMAIN lim.pc :
          c # o /\ lim.pc[c] = "inserting" /\ lim.pc[o] = "inserting" /\ lim.passed[c] = 2

(***************************************************************************)
(* One full iteration of the change-hash iterator, and close()             *)
(***************************************************************************)
\* next() has returned undefined
Exhausted == iter.undefs > 0

\* C39: with no write to the domain since find(), the iteration yields no document
\* twice and, once next() has returned undefined, every document of the domain; the
\* records of hashed documents come before every computed record; the phase never
\* goes back from non-hashed to hashed, and an exhausted iterator yields nothing more
C39_FullIteration ==
    /\ [](iter.quiet =>
            /\ \A m, n \in 1..Len(iter.out) : m # n => iter.out[m].id # iter.out[n].id
            /\ \A m, n \in 1..Len(iter.out) :
                  (m < n /\ iter.out[m].computed) => iter.out[n].computed
            /\ Exhausted =>
                  /\ {iter.out[n].id : n \in 1..Len(iter.out)} = DOMAIN db
                  /\ iter.mode = "non-hashed")
    /\ [][iter'.runs = iter.runs =>
            /\ iter.mode = "non-hashed" => iter'.mode = "non-hashed"
            /\ Exhausted => (iter'.out = iter.out /\ iter'.undefs >= iter.undefs)]_vars

\* an iteration over a hashed and a not yet hashed document, without a write in
\* between, has yielded both and next() has returned undefined twice
C39_Witness ==
    /\ iter.quiet
    /\ ~iter.recheck
    /\ iter.undefs = 2
    /\ Len(iter.out) = 2
    /\ ~iter.out[1].computed
    /\ iter.out[2].computed

\* C40: close() completes without error in every state of the iterator, before the
\* first next() and after the iteration is exhausted included
C40_CloseNeverThrows == iter.closed => ~iter.threw

====
